---- MODULE Spec2Model ----
(***************************************************************************)
(* Model of the prompt_tools Controller (src/core/controller.py): the      *)
(* session coordinator that owns current_preset_name and drives the        *)
(* presets, prompts (activation) and groups managers.                      *)
(*                                                                         *)
(* The three managers (core/presets.py, core/prompts.py, core/groups.py)   *)
(* are modelled from spec.md sections 4.1-4.3; the Controller methods are  *)
(* translated from the source, one action per public method.               *)
(***************************************************************************)
EXTENDS Integers, Sequences, FiniteSets, TLC

\* ------------------------------------------------------------------ bounds
\* Longest prompt list a preset may grow to (add_prompt stops there).
MaxPrompts == 3
\* Longest index list handed to a multi-index operation.
MaxIndices == 2
\* Number of Controller calls a behaviour is followed for.
MaxSteps == 4

\* ------------------------------------------------------------- the universe
\* Prompt records {name, content, origin} (spec.md section 3).
PA == [name |-> "A", content |-> "cA", origin |-> "extracted"]
PB == [name |-> "B", content |-> "", origin |-> "extracted"]
PC == [name |-> "C", content |-> "cC", origin |-> "user-created"]
PE == [name |-> "E", content |-> "cE", origin |-> "user-created"]

\* Preset names: "P" comes from extraction, "N" can be created.
PresetNames == {"P", "N"}
GroupNames == {"g"}

\* Arguments the host may pass.
IndexRange == -1 .. MaxPrompts
IndexLists == UNION {[1 .. n -> 0 .. MaxPrompts] : n \in 0 .. MaxIndices}
\* Index lists a group is created or updated with: empty, in range, with a
\* repeated index, and with an index no prompt list reaches.
GroupIndexLists == {<<>>, <<0>>, <<0, 1>>, <<0, 2>>, <<2, 2>>, <<1, MaxPrompts>>}
NameArgs == {"", "E"}
ContentArgs == {"", "cE"}
PresetNameArgs == {"", "P", "N"}
GroupNameArgs == {"", "g"}
SystemTexts == {"", "orig"}
UserTexts == {"u"}

\* What the extraction collaborator leaves in the durable store: the preset
\* "P" with prompts [A, B, C] and prefix "SYS", or nothing at all.
ExtractedList == <<"P">>
ExtractedPrompts == [n \in PresetNames |-> IF n = "P" THEN <<PA, PB, PC>> ELSE <<>>]
EmptyStorePrompts == [n \in PresetNames |-> <<>>]
NoGroups == [n \in {} |-> <<>>]

VARIABLES
    preset_list,          \* PresetsManager: ordered preset names
    presets,              \* PresetsManager.presets: name -> prompt list
    current_preset_name,  \* Controller.current_preset_name
    active_prompts,       \* PromptsManager.active_prompts (the ActiveSet)
    prompt_groups,        \* GroupsManager.prompt_groups (in memory)
    saved_active,         \* activation-state file per preset (markers)
    saved_groups,         \* group-definition file per preset
    saved_from,           \* per preset: the prompt list its activation state was last saved under
    last_op,              \* name of the Controller method that ran last
    result,               \* the tuple it returned
    scenario,             \* progress of clear; activate group; deactivate group
    steps,                \* Controller calls made so far
    pending_add           \* the two-step add command waiting for its content

vars == <<preset_list, presets, current_preset_name, active_prompts, prompt_groups,
          saved_active, saved_groups, saved_from, last_op, result, scenario, steps,
          pending_add>>

\* ------------------------------------------------------------ list helpers
Range(s) == {s[i] : i \in 1 .. Len(s)}

\* Python's "x in list".
Contains(s, x) == \E i \in 1 .. Len(s) : s[i] = x

\* list.pop(i) with a 0-based position i: the list without that entry.
RemoveAt(s, i) == [k \in 1 .. Len(s) - 1 |-> IF k <= i THEN s[k] ELSE s[k + 1]]

\* The list without every entry equal to x.
Without(s, x) == SelectSeq(s, LAMBDA e : e # x)

\* A 0-based Python index into a TLA+ sequence.
At(s, i) == s[i + 1]

InRange(i, s) == 0 <= i /\ i < Len(s)

Reverse(s) == [k \in 1 .. Len(s) |-> s[Len(s) + 1 - k]]

Min(S) == CHOOSE x \in S : \A y \in S : x <= y

\* Optional[prompt]: None is the empty list, a prompt is a one-entry list.
NoPrompt == <<>>
Some(p) == <<p>>

\* ------------------------------------------------ PresetsManager (spec 4.1)
\* get_prompts(name): the preset's prompt list, empty if the name is unknown.
get_prompts(name) == IF name \in DOMAIN presets THEN presets[name] ELSE <<>>

\* get_prefix(name): only the extracted preset "P" carries a prefix.
get_prefix(name) == IF name = "P" THEN "SYS" ELSE ""

\* create_preset(name) -> bool: fails if the name is empty or already exists.
PS_can_create(name) == name # "" /\ ~Contains(preset_list, name)

\* What load_presets() finds after an extraction run: the store as it was
\* persisted ("same"), the freshly extracted sources ("extracted"), or no
\* preset at all ("empty": the source files were removed).
ExtractionOutcomes == {"same", "extracted", "empty"}
LoadedList(outcome) ==
    CASE outcome = "same" -> preset_list
      [] outcome = "extracted" -> ExtractedList
      [] OTHER -> <<>>
LoadedPresets(outcome) ==
    CASE outcome = "same" -> presets
      [] outcome = "extracted" -> ExtractedPrompts
      [] OTHER -> EmptyStorePrompts

\* --------------------------------------------- PromptsManager (spec 4.2)
\* activate(all_prompts, indices): append every indexed prompt whose value is
\* not yet in the ActiveSet, in input order; return what was appended.  The
\* caller owes indices in range.  For an index out of range the tracker either
\* skips it or raises at it (raises = TRUE), keeping what it appended so far.
RECURSIVE ActivateFrom(_, _, _, _, _)
ActivateFrom(active, newly, all_prompts, indices, raises) ==
    IF indices = <<>>
    THEN [active |-> active, newly |-> newly, raised |-> FALSE]
    ELSE LET idx == Head(indices) IN
         IF ~InRange(idx, all_prompts)
         THEN IF raises
              THEN [active |-> active, newly |-> newly, raised |-> TRUE]
              ELSE ActivateFrom(active, newly, all_prompts, Tail(indices), raises)
         ELSE LET p == At(all_prompts, idx) IN
              IF Contains(active, p)
              THEN ActivateFrom(active, newly, all_prompts, Tail(indices), raises)
              ELSE ActivateFrom(Append(active, p), Append(newly, p),
                                all_prompts, Tail(indices), raises)

\* Faulty variant of activate: every indexed prompt in range is appended,
\* whether or not its value is already in the ActiveSet.
RECURSIVE AppendAll(_, _, _)
AppendAll(active, all_prompts, indices) ==
    IF indices = <<>>
    THEN active
    ELSE AppendAll(IF InRange(Head(indices), all_prompts)
                   THEN Append(active, At(all_prompts, Head(indices)))
                   ELSE active,
                   all_prompts, Tail(indices))

PM_activate_prompts_appends_all(active, all_prompts, indices, raises) ==
    [active |-> AppendAll(active, all_prompts, indices),
     newly |-> AppendAll(<<>>, all_prompts, indices),
     raised |-> FALSE]

PM_activate_prompts(active, all_prompts, indices, raises) ==
    ActivateFrom(active, <<>>, all_prompts, indices, raises)

\* deactivate(active_list_index): remove and return the entry at that position
\* of the ActiveSet, or None.
PM_deactivate_prompt(active, index) ==
    IF InRange(index, active)
    THEN [active |-> RemoveAt(active, index), removed |-> Some(At(active, index))]
    ELSE [active |-> active, removed |-> NoPrompt]

\* deactivate_by_value(prompts): remove the entries equal to one of the given
\* prompts; return the removed entries.
RECURSIVE DeactivateValues(_, _, _)
DeactivateValues(active, removed, prompts) ==
    IF prompts = <<>>
    THEN [active |-> active, removed |-> removed]
    ELSE LET p == Head(prompts) IN
         IF Contains(active, p)
         THEN DeactivateValues(Without(active, p), Append(removed, p), Tail(prompts))
         ELSE DeactivateValues(active, removed, Tail(prompts))

PM_deactivate_prompts_by_reference(active, prompts) ==
    DeactivateValues(active, <<>>, prompts)

\* The persisted marker of a prompt: the fields that re-match it by value.
Marker(p) == <<p.name, p.content, p.origin>>

\* save(preset_name, all_prompts): the ActiveSet as markers, in order.
PM_save_activation_state(preset_name, active) ==
    [saved_active EXCEPT ![preset_name] = [i \in 1 .. Len(active) |-> Marker(active[i])]]

\* load(preset_name, all_prompts): re-match the markers against all_prompts by
\* value, in saved order; a marker that matches nothing is dropped.
RECURSIVE RestoreFrom(_, _)
RestoreFrom(markers, all_prompts) ==
    IF markers = <<>>
    THEN <<>>
    ELSE LET hits == {i \in 1 .. Len(all_prompts) : Marker(all_prompts[i]) = Head(markers)}
             rest == RestoreFrom(Tail(markers), all_prompts)
         IN  IF hits = {} THEN rest ELSE <<all_prompts[Min(hits)]>> \o rest

PM_load_activation_state(preset_name, all_prompts) ==
    RestoreFrom(saved_active[preset_name], all_prompts)

\* A call of save_activation_state; saved_from remembers the prompt list the
\* state was saved under (history only: no operation reads it).
NeverSaved == <<[name |-> "", content |-> "", origin |-> "never saved"]>>
Saved(preset_name, active) ==
    /\ saved_active' = PM_save_activation_state(preset_name, active)
    /\ saved_from' = [saved_from EXCEPT ![preset_name] = get_prompts(preset_name)]

\* ---------------------------------------------- GroupsManager (spec 4.3)
\* Indices de-duplicated, first occurrence kept.
RECURSIVE Dedup(_)
Dedup(indices) ==
    IF indices = <<>>
    THEN <<>>
    ELSE LET front == Dedup(SubSeq(indices, 1, Len(indices) - 1))
             x == indices[Len(indices)]
         IN  IF Contains(front, x) THEN front ELSE Append(front, x)

AllInRange(indices, all_prompts) ==
    \A k \in 1 .. Len(indices) : InRange(indices[k], all_prompts)

\* load(preset_name): the groups persisted for the preset.
GM_load_prompt_groups(preset_name) == saved_groups[preset_name]

\* create(name, indices, preset_name, all_prompts) -> bool.
GM_can_create(name, indices, all_prompts) ==
    name \notin DOMAIN prompt_groups /\ AllInRange(indices, all_prompts)

\* update(name, indices, preset_name, all_prompts) -> bool.
GM_can_update(name, indices, all_prompts) ==
    name \in DOMAIN prompt_groups /\ AllInRange(indices, all_prompts)

\* The registry with group name set to the de-duplicated indices.
GM_with_group(name, indices) ==
    [n \in DOMAIN prompt_groups \cup {name} |->
        IF n = name THEN Dedup(indices) ELSE prompt_groups[n]]

\* The registry without group name.
GM_without_group(name) ==
    [n \in DOMAIN prompt_groups \ {name} |-> prompt_groups[n]]

\* ------------------------------------------------------------- Controller
get_current_prompts ==
    IF current_preset_name = "" THEN <<>> ELSE get_prompts(current_preset_name)

get_current_prefix ==
    IF current_preset_name = "" THEN "" ELSE get_prefix(current_preset_name)

\* What the method returns, and which method it was.
Return(op, res) == last_op' = op /\ result' = res

\* Progress of the sequence clear_active_prompts; activate_prompt_group(g);
\* deactivate_prompt_group(g): any other call starts over.
NoScenario == [stage |-> "none", group |-> ""]
Track(op, group_name) ==
    CASE op = "clear_active_prompts" -> [stage |-> "cleared", group |-> ""]
      [] op = "activate_prompt_group" /\ scenario.stage = "cleared" ->
            [stage |-> "activated", group |-> group_name]
      [] op = "deactivate_prompt_group" /\ scenario.stage = "activated"
            /\ scenario.group = group_name ->
            [stage |-> "deactivated", group |-> group_name]
      [] OTHER -> NoScenario

\* No add command is waiting for its content.
NotWaiting == [waiting |-> FALSE, name |-> "", issued_under |-> ""]

\* One more Controller call, while the behaviour is followed.  A call made by
\* another handler leaves a waiting add command as it is.
Tick == steps < MaxSteps /\ steps' = steps + 1 /\ UNCHANGED pending_add

\* State after Controller.__init__ on a fresh data directory: _initialize has
\* loaded the extracted store and made its first preset current.
Init ==
    /\ preset_list = ExtractedList
    /\ presets = ExtractedPrompts
    /\ current_preset_name = "P"
    /\ active_prompts = <<>>
    /\ prompt_groups = NoGroups
    /\ saved_active = [n \in PresetNames \cup {""} |-> <<>>]
    /\ saved_groups = [n \in PresetNames \cup {""} |-> NoGroups]
    /\ saved_from = [n \in PresetNames \cup {""} |-> NeverSaved]
    /\ last_op = "__init__"
    /\ result = <<>>
    /\ scenario = NoScenario
    /\ steps = 0
    /\ pending_add = NotWaiting

\* A restart of the host (a waiting add command is lost with the process):
\* Controller.__init__ resets the in-memory state and
\* _initialize reloads the persisted store, the first preset's groups and its
\* activation state.
initialize ==
    /\ UNCHANGED <<preset_list, presets, saved_active, saved_from, saved_groups>>
    /\ IF preset_list # <<>>
       THEN LET name == preset_list[1] IN
            /\ current_preset_name' = name
            /\ prompt_groups' = GM_load_prompt_groups(name)
            /\ active_prompts' = PM_load_activation_state(name, get_prompts(name))
       ELSE /\ current_preset_name' = ""
            /\ prompt_groups' = NoGroups
            /\ active_prompts' = <<>>
    /\ Return("__init__", <<>>)
    /\ steps < MaxSteps
    /\ steps' = steps + 1
    /\ pending_add' = NotWaiting
    /\ scenario' = NoScenario

\* Faulty variant of switch_preset: the new preset's activation state is not restored.
switch_preset_no_restore(index) ==
    /\ Tick
    /\ scenario' = NoScenario
    /\ IF preset_list = <<>>
       THEN /\ Return("switch_preset", <<FALSE, "no presets">>)
            /\ UNCHANGED <<preset_list, presets, current_preset_name, active_prompts,
                           prompt_groups, saved_active, saved_from, saved_groups>>
       ELSE IF InRange(index, preset_list)
       THEN LET name == At(preset_list, index) IN
            /\ current_preset_name' = name
            /\ prompt_groups' = GM_load_prompt_groups(name)
            /\ active_prompts' = <<>>
            /\ Return("switch_preset", <<TRUE, "switched">>)
            /\ UNCHANGED <<preset_list, presets, saved_active, saved_from, saved_groups>>
       ELSE /\ Return("switch_preset", <<FALSE, "invalid preset index">>)
            /\ UNCHANGED <<preset_list, presets, current_preset_name, active_prompts,
                           prompt_groups, saved_active, saved_from, saved_groups>>

\* Faulty variant of switch_preset_steps: the activation state is restored
\* before the groups are loaded.
switch_preset_steps_restore_first(index) ==
    LET s1 == [current_preset_name |-> current_preset_name,
               active_prompts |-> <<>>,
               prompt_groups |-> prompt_groups]
        s2 == [s1 EXCEPT !.current_preset_name = At(preset_list, index)]
        s3 == [s2 EXCEPT !.active_prompts =
                  PM_load_activation_state(s2.current_preset_name,
                                           get_prompts(s2.current_preset_name))]
        s4 == [s3 EXCEPT !.prompt_groups = GM_load_prompt_groups(s3.current_preset_name)]
    IN  <<s1, s2, s3, s4>>

\* The in-memory state after each statement of a successful switch_preset:
\* clear the ActiveSet, set the new name, load its groups, restore its
\* activation state.
switch_preset_steps(index) ==
    LET s1 == [current_preset_name |-> current_preset_name,
               active_prompts |-> <<>>,
               prompt_groups |-> prompt_groups]
        s2 == [s1 EXCEPT !.current_preset_name = At(preset_list, index)]
        s3 == [s2 EXCEPT !.prompt_groups = GM_load_prompt_groups(s2.current_preset_name)]
        s4 == [s3 EXCEPT !.active_prompts =
                  PM_load_activation_state(s3.current_preset_name,
                                           get_prompts(s3.current_preset_name))]
    IN  <<s1, s2, s3, s4>>

\* Faulty variant of switch_preset: the ActiveSet is cleared before the index
\* is checked.
switch_preset_clears_first(index) ==
    /\ Tick
    /\ scenario' = NoScenario
    /\ IF preset_list = <<>>
       THEN /\ Return("switch_preset", <<FALSE, "no presets">>)
            /\ UNCHANGED <<preset_list, presets, current_preset_name, active_prompts,
                           prompt_groups, saved_active, saved_from, saved_groups>>
       ELSE IF InRange(index, preset_list)
       THEN LET after == switch_preset_steps(index)[4] IN
            /\ current_preset_name' = after.current_preset_name
            /\ prompt_groups' = after.prompt_groups
            /\ active_prompts' = after.active_prompts
            /\ Return("switch_preset", <<TRUE, "switched">>)
            /\ UNCHANGED <<preset_list, presets, saved_active, saved_from, saved_groups>>
       ELSE /\ Return("switch_preset", <<FALSE, "invalid preset index">>)
            /\ active_prompts' = <<>>
            /\ UNCHANGED <<preset_list, presets, current_preset_name,
                           prompt_groups, saved_active, saved_from, saved_groups>>

\* Faulty variant of switch_preset: clearing the old preset's ActiveSet also
\* overwrites its persisted markers.
switch_preset_saves_cleared(index) ==
    /\ Tick
    /\ scenario' = NoScenario
    /\ IF preset_list = <<>>
       THEN /\ Return("switch_preset", <<FALSE, "no presets">>)
            /\ UNCHANGED <<preset_list, presets, current_preset_name, active_prompts,
                           prompt_groups, saved_active, saved_from, saved_groups>>
       ELSE IF InRange(index, preset_list)
       THEN LET name == At(preset_list, index) IN
            /\ saved_active' = [saved_active EXCEPT ![current_preset_name] = <<>>]
            /\ current_preset_name' = name
            /\ prompt_groups' = GM_load_prompt_groups(name)
            /\ active_prompts' = RestoreFrom(saved_active'[name], get_prompts(name))
            /\ Return("switch_preset", <<TRUE, "switched">>)
            /\ UNCHANGED <<preset_list, presets, saved_from, saved_groups>>
       ELSE /\ Return("switch_preset", <<FALSE, "invalid preset index">>)
            /\ UNCHANGED <<preset_list, presets, current_preset_name, active_prompts,
                           prompt_groups, saved_active, saved_from, saved_groups>>

switch_preset(index) ==
    /\ Tick
    /\ scenario' = NoScenario
    /\ IF preset_list = <<>>
       THEN /\ Return("switch_preset", <<FALSE, "no presets">>)
            /\ UNCHANGED <<preset_list, presets, current_preset_name, active_prompts,
                           prompt_groups, saved_active, saved_from, saved_groups>>
       ELSE IF InRange(index, preset_list)
       THEN LET after == switch_preset_steps(index)[4] IN
            /\ current_preset_name' = after.current_preset_name
            /\ prompt_groups' = after.prompt_groups
            /\ active_prompts' = after.active_prompts
            /\ Return("switch_preset", <<TRUE, "switched">>)
            /\ UNCHANGED <<preset_list, presets, saved_active, saved_from, saved_groups>>
       ELSE /\ Return("switch_preset", <<FALSE, "invalid preset index">>)
            /\ UNCHANGED <<preset_list, presets, current_preset_name, active_prompts,
                           prompt_groups, saved_active, saved_from, saved_groups>>

\* Faulty variant of create_preset: the groups of the old preset stay in memory.
create_preset_keeps_groups(name) ==
    /\ Tick
    /\ scenario' = NoScenario
    /\ IF name = ""
       THEN /\ Return("create_preset", <<FALSE, "empty preset name">>)
            /\ UNCHANGED <<preset_list, presets, current_preset_name, active_prompts,
                           prompt_groups, saved_active, saved_from, saved_groups>>
       ELSE IF PS_can_create(name)
       THEN /\ preset_list' = Append(preset_list, name)
            /\ presets' = [presets EXCEPT ![name] = <<>>]
            /\ current_preset_name' = name
            /\ active_prompts' = <<>>
            /\ UNCHANGED prompt_groups
            /\ Return("create_preset", <<TRUE, "created">>)
            /\ UNCHANGED <<saved_active, saved_from, saved_groups>>
       ELSE /\ Return("create_preset", <<FALSE, "create failed">>)
            /\ UNCHANGED <<preset_list, presets, current_preset_name, active_prompts,
                           prompt_groups, saved_active, saved_from, saved_groups>>

create_preset(name) ==
    /\ Tick
    /\ scenario' = NoScenario
    /\ IF name = ""
       THEN /\ Return("create_preset", <<FALSE, "empty preset name">>)
            /\ UNCHANGED <<preset_list, presets, current_preset_name, active_prompts,
                           prompt_groups, saved_active, saved_from, saved_groups>>
       ELSE IF PS_can_create(name)
       THEN /\ preset_list' = Append(preset_list, name)
            /\ presets' = [presets EXCEPT ![name] = <<>>]
            /\ current_preset_name' = name
            /\ active_prompts' = <<>>
            /\ prompt_groups' = NoGroups
            /\ Return("create_preset", <<TRUE, "created">>)
            /\ UNCHANGED <<saved_active, saved_from, saved_groups>>
       ELSE /\ Return("create_preset", <<FALSE, "create failed">>)
            /\ UNCHANGED <<preset_list, presets, current_preset_name, active_prompts,
                           prompt_groups, saved_active, saved_from, saved_groups>>

RECURSIVE PromptCount(_, _)
PromptCount(names, store) ==
    IF names = <<>> THEN 0
    ELSE Len(store[Head(names)]) + PromptCount(Tail(names), store)

NoStats == <<>>

\* Faulty variant of refresh_prompts: with no preset left, the name of the
\* old preset stays current.
refresh_prompts_keeps_current(extracted, outcome) ==
    /\ Tick
    /\ scenario' = NoScenario
    /\ IF extracted
       THEN LET new_list == LoadedList(outcome)
                new_presets == LoadedPresets(outcome)
                stats == [preset_count |-> Len(new_list),
                          prompt_count |-> PromptCount(new_list, new_presets)]
            IN  /\ preset_list' = new_list
                /\ presets' = new_presets
                /\ active_prompts' = <<>>
                /\ IF new_list # <<>>
                   THEN /\ current_preset_name' = new_list[1]
                        /\ prompt_groups' = GM_load_prompt_groups(new_list[1])
                   ELSE UNCHANGED <<current_preset_name, prompt_groups>>
                /\ IF stats.preset_count > 0
                   THEN Return("refresh_prompts", <<TRUE, "reloaded", stats>>)
                   ELSE Return("refresh_prompts", <<TRUE, "no presets found", stats>>)
                /\ UNCHANGED <<saved_active, saved_from, saved_groups>>
       ELSE /\ Return("refresh_prompts", <<FALSE, "extraction failed", NoStats>>)
            /\ UNCHANGED <<preset_list, presets, current_preset_name, active_prompts,
                           prompt_groups, saved_active, saved_from, saved_groups>>

\* Faulty variant of refresh_prompts: the ActiveSet is not cleared.
refresh_prompts_keeps_active(extracted, outcome) ==
    /\ Tick
    /\ scenario' = NoScenario
    /\ IF extracted
       THEN LET new_list == LoadedList(outcome)
                new_presets == LoadedPresets(outcome)
                stats == [preset_count |-> Len(new_list),
                          prompt_count |-> PromptCount(new_list, new_presets)]
            IN  /\ preset_list' = new_list
                /\ presets' = new_presets
                /\ UNCHANGED active_prompts
                /\ IF new_list # <<>>
                   THEN /\ current_preset_name' = new_list[1]
                        /\ prompt_groups' = GM_load_prompt_groups(new_list[1])
                   ELSE /\ current_preset_name' = ""
                        /\ UNCHANGED prompt_groups
                /\ IF stats.preset_count > 0
                   THEN Return("refresh_prompts", <<TRUE, "reloaded", stats>>)
                   ELSE Return("refresh_prompts", <<TRUE, "no presets found", stats>>)
                /\ UNCHANGED <<saved_active, saved_from, saved_groups>>
       ELSE /\ Return("refresh_prompts", <<FALSE, "extraction failed", NoStats>>)
            /\ UNCHANGED <<preset_list, presets, current_preset_name, active_prompts,
                           prompt_groups, saved_active, saved_from, saved_groups>>

\* Faulty variant of refresh_prompts: the ActiveSet is cleared before the
\* extraction result is looked at.
refresh_prompts_clears_on_failure(extracted, outcome) ==
    /\ Tick
    /\ scenario' = NoScenario
    /\ IF extracted
       THEN LET new_list == LoadedList(outcome)
                new_presets == LoadedPresets(outcome)
                stats == [preset_count |-> Len(new_list),
                          prompt_count |-> PromptCount(new_list, new_presets)]
            IN  /\ preset_list' = new_list
                /\ presets' = new_presets
                /\ active_prompts' = <<>>
                /\ IF new_list # <<>>
                   THEN /\ current_preset_name' = new_list[1]
                        /\ prompt_groups' = GM_load_prompt_groups(new_list[1])
                   ELSE /\ current_preset_name' = ""
                        /\ UNCHANGED prompt_groups
                /\ IF stats.preset_count > 0
                   THEN Return("refresh_prompts", <<TRUE, "reloaded", stats>>)
                   ELSE Return("refresh_prompts", <<TRUE, "no presets found", stats>>)
                /\ UNCHANGED <<saved_active, saved_from, saved_groups>>
       ELSE /\ Return("refresh_prompts", <<FALSE, "extraction failed", NoStats>>)
            /\ active_prompts' = <<>>
            /\ UNCHANGED <<preset_list, presets, current_preset_name,
                           prompt_groups, saved_active, saved_from, saved_groups>>

refresh_prompts(extracted, outcome) ==
    /\ Tick
    /\ scenario' = NoScenario
    /\ IF extracted
       THEN LET new_list == LoadedList(outcome)
                new_presets == LoadedPresets(outcome)
                stats == [preset_count |-> Len(new_list),
                          prompt_count |-> PromptCount(new_list, new_presets)]
            IN  /\ preset_list' = new_list
                /\ presets' = new_presets
                /\ active_prompts' = <<>>
                /\ IF new_list # <<>>
                   THEN /\ current_preset_name' = new_list[1]
                        /\ prompt_groups' = GM_load_prompt_groups(new_list[1])
                   ELSE /\ current_preset_name' = ""
                        /\ UNCHANGED prompt_groups
                /\ IF stats.preset_count > 0
                   THEN Return("refresh_prompts", <<TRUE, "reloaded", stats>>)
                   ELSE Return("refresh_prompts", <<TRUE, "no presets found", stats>>)
                /\ UNCHANGED <<saved_active, saved_from, saved_groups>>
       ELSE /\ Return("refresh_prompts", <<FALSE, "extraction failed", NoStats>>)
            /\ UNCHANGED <<preset_list, presets, current_preset_name, active_prompts,
                           prompt_groups, saved_active, saved_from, saved_groups>>

\* Faulty variant of activate_prompt: no check that the prompt is already active.
activate_prompt_unchecked(index) ==
    LET all_prompts == get_current_prompts IN
    /\ Tick
    /\ scenario' = NoScenario
    /\ UNCHANGED <<preset_list, presets, current_preset_name, prompt_groups, saved_groups>>
    /\ IF all_prompts = <<>>
       THEN /\ Return("activate_prompt", <<FALSE, "no prompts", NoPrompt>>)
            /\ UNCHANGED <<active_prompts, saved_active, saved_from>>
       ELSE IF InRange(index, all_prompts)
       THEN LET prompt == At(all_prompts, index)
                r == PM_activate_prompts(active_prompts, all_prompts, <<index>>, FALSE)
            IN  /\ active_prompts' = r.active
                /\ IF r.newly # <<>>
                   THEN /\ Saved(current_preset_name, r.active)
                        /\ Return("activate_prompt", <<TRUE, "activated", Some(prompt)>>)
                   ELSE /\ UNCHANGED <<saved_active, saved_from>>
                        /\ Return("activate_prompt", <<FALSE, "internal logic error", NoPrompt>>)
       ELSE /\ Return("activate_prompt", <<FALSE, "invalid prompt index", NoPrompt>>)
            /\ UNCHANGED <<active_prompts, saved_active, saved_from>>

activate_prompt(index) ==
    LET all_prompts == get_current_prompts IN
    /\ Tick
    /\ scenario' = NoScenario
    /\ UNCHANGED <<preset_list, presets, current_preset_name, prompt_groups, saved_groups>>
    /\ IF all_prompts = <<>>
       THEN /\ Return("activate_prompt", <<FALSE, "no prompts", NoPrompt>>)
            /\ UNCHANGED <<active_prompts, saved_active, saved_from>>
       ELSE IF InRange(index, all_prompts)
       THEN LET prompt == At(all_prompts, index) IN
            IF Contains(active_prompts, prompt)
            THEN /\ Return("activate_prompt", <<TRUE, "already active", Some(prompt)>>)
                 /\ UNCHANGED <<active_prompts, saved_active, saved_from>>
            ELSE LET r == PM_activate_prompts(active_prompts, all_prompts, <<index>>, FALSE) IN
                 /\ active_prompts' = r.active
                 /\ IF r.newly # <<>>
                    THEN /\ Saved(current_preset_name, r.active)
                         /\ Return("activate_prompt", <<TRUE, "activated", Some(prompt)>>)
                    ELSE /\ UNCHANGED <<saved_active, saved_from>>
                         /\ Return("activate_prompt", <<FALSE, "internal logic error", NoPrompt>>)
       ELSE /\ Return("activate_prompt", <<FALSE, "invalid prompt index", NoPrompt>>)
            /\ UNCHANGED <<active_prompts, saved_active, saved_from>>

\* Faulty variant of activate_prompt_save_fails: the ActiveSet is rolled back to
\* what it was when the write fails.
activate_prompt_rolls_back(index) ==
    LET all_prompts == get_current_prompts IN
    /\ Tick
    /\ scenario' = NoScenario
    /\ UNCHANGED <<preset_list, presets, current_preset_name, prompt_groups, saved_groups>>
    /\ IF all_prompts = <<>>
       THEN /\ Return("activate_prompt", <<FALSE, "no prompts", NoPrompt>>)
            /\ UNCHANGED <<active_prompts, saved_active, saved_from>>
       ELSE IF InRange(index, all_prompts)
       THEN LET prompt == At(all_prompts, index) IN
            IF Contains(active_prompts, prompt)
            THEN /\ Return("activate_prompt", <<TRUE, "already active", Some(prompt)>>)
                 /\ UNCHANGED <<active_prompts, saved_active, saved_from>>
            ELSE LET r == PM_activate_prompts(active_prompts, all_prompts, <<index>>, FALSE) IN
                 /\ UNCHANGED active_prompts
                 /\ IF r.newly # <<>>
                    THEN /\ UNCHANGED <<saved_active, saved_from>>
                         /\ Return("activate_prompt", <<FALSE, "internal error", NoPrompt>>)
                    ELSE /\ UNCHANGED <<saved_active, saved_from>>
                         /\ Return("activate_prompt", <<FALSE, "internal logic error", NoPrompt>>)
       ELSE /\ Return("activate_prompt", <<FALSE, "invalid prompt index", NoPrompt>>)
            /\ UNCHANGED <<active_prompts, saved_active, saved_from>>

\* activate_prompt when the write of the activation-state file fails: the
\* error leaves save_activation_state after the tracker has appended the prompt
\* and is caught by the method's except clause.  The file keeps its content.
activate_prompt_save_fails(index) ==
    LET all_prompts == get_current_prompts IN
    /\ Tick
    /\ scenario' = NoScenario
    /\ UNCHANGED <<preset_list, presets, current_preset_name, prompt_groups, saved_groups>>
    /\ IF all_prompts = <<>>
       THEN /\ Return("activate_prompt", <<FALSE, "no prompts", NoPrompt>>)
            /\ UNCHANGED <<active_prompts, saved_active, saved_from>>
       ELSE IF InRange(index, all_prompts)
       THEN LET prompt == At(all_prompts, index) IN
            IF Contains(active_prompts, prompt)
            THEN /\ Return("activate_prompt", <<TRUE, "already active", Some(prompt)>>)
                 /\ UNCHANGED <<active_prompts, saved_active, saved_from>>
            ELSE LET r == PM_activate_prompts(active_prompts, all_prompts, <<index>>, FALSE) IN
                 /\ active_prompts' = r.active
                 /\ IF r.newly # <<>>
                    THEN /\ UNCHANGED <<saved_active, saved_from>>
                         /\ Return("activate_prompt", <<FALSE, "internal error", NoPrompt>>)
                    ELSE /\ UNCHANGED <<saved_active, saved_from>>
                         /\ Return("activate_prompt", <<FALSE, "internal logic error", NoPrompt>>)
       ELSE /\ Return("activate_prompt", <<FALSE, "invalid prompt index", NoPrompt>>)
            /\ UNCHANGED <<active_prompts, saved_active, saved_from>>

\* Faulty variant of activate_multiple_prompts: the indices are taken in reverse order.
activate_multiple_prompts_reversed(indices) ==
    LET all_prompts == get_current_prompts IN
    /\ Tick
    /\ scenario' = NoScenario
    /\ UNCHANGED <<preset_list, presets, current_preset_name, prompt_groups, saved_groups>>
    /\ IF indices = <<>>
       THEN /\ Return("activate_multiple_prompts", <<FALSE, "empty index list", <<>>>>)
            /\ UNCHANGED <<active_prompts, saved_active, saved_from>>
       ELSE IF all_prompts = <<>>
       THEN /\ Return("activate_multiple_prompts", <<FALSE, "no prompts", <<>>>>)
            /\ UNCHANGED <<active_prompts, saved_active, saved_from>>
       ELSE IF ~AllInRange(indices, all_prompts)
       THEN /\ Return("activate_multiple_prompts", <<FALSE, "invalid prompt indices", <<>>>>)
            /\ UNCHANGED <<active_prompts, saved_active, saved_from>>
       ELSE LET r == PM_activate_prompts(active_prompts, all_prompts, Reverse(indices), FALSE) IN
            /\ active_prompts' = r.active
            /\ IF r.newly # <<>>
               THEN /\ Saved(current_preset_name, r.active)
                    /\ Return("activate_multiple_prompts", <<TRUE, "activated", r.newly>>)
               ELSE /\ UNCHANGED <<saved_active, saved_from>>
                    /\ Return("activate_multiple_prompts", <<TRUE, "all already active", <<>>>>)

\* Faulty variant of activate_multiple_prompts: an index out of range is
\* skipped and the other indices are activated.
activate_multiple_prompts_skips_invalid(indices) ==
    LET all_prompts == get_current_prompts IN
    /\ Tick
    /\ scenario' = NoScenario
    /\ UNCHANGED <<preset_list, presets, current_preset_name, prompt_groups, saved_groups>>
    /\ IF indices = <<>>
       THEN /\ Return("activate_multiple_prompts", <<FALSE, "empty index list", <<>>>>)
            /\ UNCHANGED <<active_prompts, saved_active, saved_from>>
       ELSE IF all_prompts = <<>>
       THEN /\ Return("activate_multiple_prompts", <<FALSE, "no prompts", <<>>>>)
            /\ UNCHANGED <<active_prompts, saved_active, saved_from>>
       ELSE IF FALSE
       THEN /\ Return("activate_multiple_prompts", <<FALSE, "invalid prompt indices", <<>>>>)
            /\ UNCHANGED <<active_prompts, saved_active, saved_from>>
       ELSE LET r == PM_activate_prompts(active_prompts, all_prompts, indices, FALSE) IN
            /\ active_prompts' = r.active
            /\ IF r.newly # <<>>
               THEN /\ Saved(current_preset_name, r.active)
                    /\ Return("activate_multiple_prompts", <<TRUE, "activated", r.newly>>)
               ELSE /\ UNCHANGED <<saved_active, saved_from>>
                    /\ Return("activate_multiple_prompts", <<TRUE, "all already active", <<>>>>)

activate_multiple_prompts(indices) ==
    LET all_prompts == get_current_prompts IN
    /\ Tick
    /\ scenario' = NoScenario
    /\ UNCHANGED <<preset_list, presets, current_preset_name, prompt_groups, saved_groups>>
    /\ IF indices = <<>>
       THEN /\ Return("activate_multiple_prompts", <<FALSE, "empty index list", <<>>>>)
            /\ UNCHANGED <<active_prompts, saved_active, saved_from>>
       ELSE IF all_prompts = <<>>
       THEN /\ Return("activate_multiple_prompts", <<FALSE, "no prompts", <<>>>>)
            /\ UNCHANGED <<active_prompts, saved_active, saved_from>>
       ELSE IF ~AllInRange(indices, all_prompts)
       THEN /\ Return("activate_multiple_prompts", <<FALSE, "invalid prompt indices", <<>>>>)
            /\ UNCHANGED <<active_prompts, saved_active, saved_from>>
       ELSE LET r == PM_activate_prompts(active_prompts, all_prompts, indices, FALSE) IN
            /\ active_prompts' = r.active
            /\ IF r.newly # <<>>
               THEN /\ Saved(current_preset_name, r.active)
                    /\ Return("activate_multiple_prompts", <<TRUE, "activated", r.newly>>)
               ELSE /\ UNCHANGED <<saved_active, saved_from>>
                    /\ Return("activate_multiple_prompts", <<TRUE, "all already active", <<>>>>)

\* activate_multiple_prompts when the write of the activation-state file
\* fails: the error is caught by the method's except clause after the tracker
\* has appended the prompts.  The file keeps its content.
activate_multiple_prompts_save_fails(indices) ==
    LET all_prompts == get_current_prompts IN
    /\ Tick
    /\ scenario' = NoScenario
    /\ UNCHANGED <<preset_list, presets, current_preset_name, prompt_groups, saved_groups>>
    /\ IF indices = <<>>
       THEN /\ Return("activate_multiple_prompts", <<FALSE, "empty index list", <<>>>>)
            /\ UNCHANGED <<active_prompts, saved_active, saved_from>>
       ELSE IF all_prompts = <<>>
       THEN /\ Return("activate_multiple_prompts", <<FALSE, "no prompts", <<>>>>)
            /\ UNCHANGED <<active_prompts, saved_active, saved_from>>
       ELSE IF ~AllInRange(indices, all_prompts)
       THEN /\ Return("activate_multiple_prompts", <<FALSE, "invalid prompt indices", <<>>>>)
            /\ UNCHANGED <<active_prompts, saved_active, saved_from>>
       ELSE LET r == PM_activate_prompts(active_prompts, all_prompts, indices, FALSE) IN
            /\ active_prompts' = r.active
            /\ IF r.newly # <<>>
               THEN /\ UNCHANGED <<saved_active, saved_from>>
                    /\ Return("activate_multiple_prompts", <<FALSE, "internal error", <<>>>>)
               ELSE /\ UNCHANGED <<saved_active, saved_from>>
                    /\ Return("activate_multiple_prompts", <<TRUE, "all already active", <<>>>>)

\* Faulty variant of activate_prompt_group: a group that does not exist is
\* taken for an empty one.
activate_prompt_group_none_as_empty(group_name, raises) ==
    LET all_prompts == get_current_prompts IN
    /\ Tick
    /\ scenario' = Track("activate_prompt_group", group_name)
    /\ UNCHANGED <<preset_list, presets, current_preset_name, prompt_groups,
                   saved_groups, saved_active, saved_from>>
    /\ IF all_prompts = <<>>
       THEN /\ Return("activate_prompt_group", <<FALSE, "no prompts", <<>>>>)
            /\ UNCHANGED active_prompts
       ELSE IF group_name = ""
       THEN /\ Return("activate_prompt_group", <<FALSE, "empty group name", <<>>>>)
            /\ UNCHANGED active_prompts
       ELSE IF group_name \notin DOMAIN prompt_groups
       THEN /\ Return("activate_prompt_group", <<FALSE, "group empty", <<>>>>)
            /\ UNCHANGED active_prompts
       ELSE IF prompt_groups[group_name] = <<>>
       THEN /\ Return("activate_prompt_group", <<FALSE, "group empty", <<>>>>)
            /\ UNCHANGED active_prompts
       ELSE LET r == PM_activate_prompts(active_prompts, all_prompts,
                                         prompt_groups[group_name], raises) IN
            /\ active_prompts' = r.active
            /\ IF r.raised
               THEN Return("activate_prompt_group", <<FALSE, "internal error", <<>>>>)
               ELSE IF r.newly # <<>>
               THEN Return("activate_prompt_group", <<TRUE, "group activated", r.newly>>)
               ELSE Return("activate_prompt_group", <<TRUE, "group already active", <<>>>>)

activate_prompt_group(group_name, raises) ==
    LET all_prompts == get_current_prompts IN
    /\ Tick
    /\ scenario' = Track("activate_prompt_group", group_name)
    /\ UNCHANGED <<preset_list, presets, current_preset_name, prompt_groups,
                   saved_groups, saved_active, saved_from>>
    /\ IF all_prompts = <<>>
       THEN /\ Return("activate_prompt_group", <<FALSE, "no prompts", <<>>>>)
            /\ UNCHANGED active_prompts
       ELSE IF group_name = ""
       THEN /\ Return("activate_prompt_group", <<FALSE, "empty group name", <<>>>>)
            /\ UNCHANGED active_prompts
       ELSE IF group_name \notin DOMAIN prompt_groups
       THEN /\ Return("activate_prompt_group", <<FALSE, "group not found", <<>>>>)
            /\ UNCHANGED active_prompts
       ELSE IF prompt_groups[group_name] = <<>>
       THEN /\ Return("activate_prompt_group", <<FALSE, "group empty", <<>>>>)
            /\ UNCHANGED active_prompts
       ELSE LET r == PM_activate_prompts(active_prompts, all_prompts,
                                         prompt_groups[group_name], raises) IN
            /\ active_prompts' = r.active
            /\ IF r.raised
               THEN Return("activate_prompt_group", <<FALSE, "internal error", <<>>>>)
               ELSE IF r.newly # <<>>
               THEN Return("activate_prompt_group", <<TRUE, "group activated", r.newly>>)
               ELSE Return("activate_prompt_group", <<TRUE, "group already active", <<>>>>)

\* Faulty variant of deactivate_prompt: the index is taken for a position in
\* the preset's prompt list and that prompt is removed from the ActiveSet.
deactivate_prompt_by_prompt_index(index) ==
    /\ Tick
    /\ scenario' = NoScenario
    /\ UNCHANGED <<preset_list, presets, current_preset_name, prompt_groups, saved_groups>>
    /\ IF active_prompts = <<>>
       THEN /\ Return("deactivate_prompt", <<FALSE, "no active prompts", NoPrompt>>)
            /\ UNCHANGED <<active_prompts, saved_active, saved_from>>
       ELSE IF InRange(index, active_prompts)
       THEN LET r == PM_deactivate_prompts_by_reference(
                        active_prompts,
                        IF InRange(index, get_current_prompts)
                        THEN <<At(get_current_prompts, index)>> ELSE <<>>) IN
            /\ active_prompts' = r.active
            /\ IF r.removed # NoPrompt
               THEN /\ Saved(current_preset_name, r.active)
                    /\ Return("deactivate_prompt", <<TRUE, "deactivated", r.removed>>)
               ELSE /\ UNCHANGED <<saved_active, saved_from>>
                    /\ Return("deactivate_prompt", <<FALSE, "internal logic error", NoPrompt>>)
       ELSE /\ Return("deactivate_prompt", <<FALSE, "invalid active index", NoPrompt>>)
            /\ UNCHANGED <<active_prompts, saved_active, saved_from>>

deactivate_prompt(index) ==
    /\ Tick
    /\ scenario' = NoScenario
    /\ UNCHANGED <<preset_list, presets, current_preset_name, prompt_groups, saved_groups>>
    /\ IF active_prompts = <<>>
       THEN /\ Return("deactivate_prompt", <<FALSE, "no active prompts", NoPrompt>>)
            /\ UNCHANGED <<active_prompts, saved_active, saved_from>>
       ELSE IF InRange(index, active_prompts)
       THEN LET r == PM_deactivate_prompt(active_prompts, index) IN
            /\ active_prompts' = r.active
            /\ IF r.removed # NoPrompt
               THEN /\ Saved(current_preset_name, r.active)
                    /\ Return("deactivate_prompt", <<TRUE, "deactivated", r.removed>>)
               ELSE /\ UNCHANGED <<saved_active, saved_from>>
                    /\ Return("deactivate_prompt", <<FALSE, "internal logic error", NoPrompt>>)
       ELSE /\ Return("deactivate_prompt", <<FALSE, "invalid active index", NoPrompt>>)
            /\ UNCHANGED <<active_prompts, saved_active, saved_from>>

\* deactivate_prompt when the write of the activation-state file fails: the
\* error is caught by the method's except clause after the tracker has removed
\* the entry.  The file keeps its content.
deactivate_prompt_save_fails(index) ==
    /\ Tick
    /\ scenario' = NoScenario
    /\ UNCHANGED <<preset_list, presets, current_preset_name, prompt_groups, saved_groups>>
    /\ IF active_prompts = <<>>
       THEN /\ Return("deactivate_prompt", <<FALSE, "no active prompts", NoPrompt>>)
            /\ UNCHANGED <<active_prompts, saved_active, saved_from>>
       ELSE IF InRange(index, active_prompts)
       THEN LET r == PM_deactivate_prompt(active_prompts, index) IN
            /\ active_prompts' = r.active
            /\ IF r.removed # NoPrompt
               THEN /\ UNCHANGED <<saved_active, saved_from>>
                    /\ Return("deactivate_prompt", <<FALSE, "internal error", NoPrompt>>)
               ELSE /\ UNCHANGED <<saved_active, saved_from>>
                    /\ Return("deactivate_prompt", <<FALSE, "internal logic error", NoPrompt>>)
       ELSE /\ Return("deactivate_prompt", <<FALSE, "invalid active index", NoPrompt>>)
            /\ UNCHANGED <<active_prompts, saved_active, saved_from>>

\* list.sort(reverse=True)
RECURSIVE InsertDesc(_, _)
InsertDesc(x, s) ==
    IF s = <<>> THEN <<x>>
    ELSE IF x >= Head(s) THEN <<x>> \o s
    ELSE <<Head(s)>> \o InsertDesc(x, Tail(s))

RECURSIVE SortDesc(_)
SortDesc(s) == IF s = <<>> THEN <<>> ELSE InsertDesc(Head(s), SortDesc(Tail(s)))

\* The loop of deactivate_multiple_prompts over the sorted valid indices.
RECURSIVE DeactivateEach(_, _, _)
DeactivateEach(active, deactivated, indices) ==
    IF indices = <<>>
    THEN [active |-> active, deactivated |-> deactivated]
    ELSE LET r == PM_deactivate_prompt(active, Head(indices)) IN
         DeactivateEach(r.active, deactivated \o r.removed, Tail(indices))

\* Faulty variant of deactivate_multiple_prompts: the valid indices are not sorted.
deactivate_multiple_prompts_unsorted(indices) ==
    LET valid_indices == SelectSeq(indices, LAMBDA idx : InRange(idx, active_prompts))
        invalid_indices == SelectSeq(indices, LAMBDA idx : ~InRange(idx, active_prompts))
    IN
    /\ Tick
    /\ scenario' = NoScenario
    /\ UNCHANGED <<preset_list, presets, current_preset_name, prompt_groups,
                   saved_groups, saved_active, saved_from>>
    /\ IF indices = <<>>
       THEN /\ Return("deactivate_multiple_prompts", <<FALSE, "empty index list", <<>>>>)
            /\ UNCHANGED active_prompts
       ELSE IF active_prompts = <<>>
       THEN /\ Return("deactivate_multiple_prompts", <<FALSE, "no active prompts", <<>>>>)
            /\ UNCHANGED active_prompts
       ELSE IF invalid_indices # <<>> /\ valid_indices = <<>>
       THEN /\ Return("deactivate_multiple_prompts", <<FALSE, "invalid active indices", <<>>>>)
            /\ UNCHANGED active_prompts
       ELSE LET r == DeactivateEach(active_prompts, <<>>, valid_indices) IN
            /\ active_prompts' = r.active
            /\ IF r.deactivated # <<>>
               THEN Return("deactivate_multiple_prompts", <<TRUE, "deactivated", r.deactivated>>)
               ELSE Return("deactivate_multiple_prompts", <<FALSE, "nothing deactivated", <<>>>>)

deactivate_multiple_prompts(indices) ==
    LET valid_indices == SelectSeq(indices, LAMBDA idx : InRange(idx, active_prompts))
        invalid_indices == SelectSeq(indices, LAMBDA idx : ~InRange(idx, active_prompts))
    IN
    /\ Tick
    /\ scenario' = NoScenario
    /\ UNCHANGED <<preset_list, presets, current_preset_name, prompt_groups,
                   saved_groups, saved_active, saved_from>>
    /\ IF indices = <<>>
       THEN /\ Return("deactivate_multiple_prompts", <<FALSE, "empty index list", <<>>>>)
            /\ UNCHANGED active_prompts
       ELSE IF active_prompts = <<>>
       THEN /\ Return("deactivate_multiple_prompts", <<FALSE, "no active prompts", <<>>>>)
            /\ UNCHANGED active_prompts
       ELSE IF invalid_indices # <<>> /\ valid_indices = <<>>
       THEN /\ Return("deactivate_multiple_prompts", <<FALSE, "invalid active indices", <<>>>>)
            /\ UNCHANGED active_prompts
       ELSE LET r == DeactivateEach(active_prompts, <<>>, SortDesc(valid_indices)) IN
            /\ active_prompts' = r.active
            /\ IF r.deactivated # <<>>
               THEN Return("deactivate_multiple_prompts", <<TRUE, "deactivated", r.deactivated>>)
               ELSE Return("deactivate_multiple_prompts", <<FALSE, "nothing deactivated", <<>>>>)

\* The prompts the group's in-range indices denote in the full prompt list.
ResolveIndices(indices, all_prompts) ==
    LET valid == SelectSeq(indices, LAMBDA idx : InRange(idx, all_prompts))
    IN  [k \in 1 .. Len(valid) |-> At(all_prompts, valid[k])]

\* Faulty variant of deactivate_prompt_group: the group's indices are resolved against
\* the active list instead of the full prompt list.
deactivate_prompt_group_by_position(group_name) ==
    LET all_prompts == get_current_prompts IN
    /\ Tick
    /\ scenario' = Track("deactivate_prompt_group", group_name)
    /\ UNCHANGED <<preset_list, presets, current_preset_name, prompt_groups,
                   saved_groups, saved_active, saved_from>>
    /\ IF current_preset_name = ""
       THEN /\ Return("deactivate_prompt_group", <<FALSE, "no preset selected", <<>>>>)
            /\ UNCHANGED active_prompts
       ELSE IF group_name = ""
       THEN /\ Return("deactivate_prompt_group", <<FALSE, "empty group name", <<>>>>)
            /\ UNCHANGED active_prompts
       ELSE IF group_name \notin DOMAIN prompt_groups
       THEN /\ Return("deactivate_prompt_group", <<FALSE, "group not found", <<>>>>)
            /\ UNCHANGED active_prompts
       ELSE IF prompt_groups[group_name] = <<>>
       THEN /\ Return("deactivate_prompt_group", <<TRUE, "group empty", <<>>>>)
            /\ UNCHANGED active_prompts
       ELSE IF all_prompts = <<>>
       THEN /\ Return("deactivate_prompt_group", <<FALSE, "no prompts", <<>>>>)
            /\ UNCHANGED active_prompts
       ELSE LET prompts_to_deactivate ==
                    ResolveIndices(prompt_groups[group_name], active_prompts)
            IN
            IF prompts_to_deactivate = <<>>
            THEN /\ Return("deactivate_prompt_group", <<FALSE, "group indices invalid", <<>>>>)
                 /\ UNCHANGED active_prompts
            ELSE LET r == PM_deactivate_prompts_by_reference(active_prompts,
                                                             prompts_to_deactivate) IN
                 /\ active_prompts' = r.active
                 /\ IF r.removed # <<>>
                    THEN Return("deactivate_prompt_group", <<TRUE, "group deactivated", r.removed>>)
                    ELSE Return("deactivate_prompt_group", <<TRUE, "group not active", <<>>>>)

\* Faulty variant of deactivate_prompt_group: one index out of range fails
\* the whole call.
deactivate_prompt_group_stale_fails(group_name) ==
    LET all_prompts == get_current_prompts IN
    /\ Tick
    /\ scenario' = Track("deactivate_prompt_group", group_name)
    /\ UNCHANGED <<preset_list, presets, current_preset_name, prompt_groups,
                   saved_groups, saved_active, saved_from>>
    /\ IF current_preset_name = ""
       THEN /\ Return("deactivate_prompt_group", <<FALSE, "no preset selected", <<>>>>)
            /\ UNCHANGED active_prompts
       ELSE IF group_name = ""
       THEN /\ Return("deactivate_prompt_group", <<FALSE, "empty group name", <<>>>>)
            /\ UNCHANGED active_prompts
       ELSE IF group_name \notin DOMAIN prompt_groups
       THEN /\ Return("deactivate_prompt_group", <<FALSE, "group not found", <<>>>>)
            /\ UNCHANGED active_prompts
       ELSE IF prompt_groups[group_name] = <<>>
       THEN /\ Return("deactivate_prompt_group", <<TRUE, "group empty", <<>>>>)
            /\ UNCHANGED active_prompts
       ELSE IF all_prompts = <<>>
       THEN /\ Return("deactivate_prompt_group", <<FALSE, "no prompts", <<>>>>)
            /\ UNCHANGED active_prompts
       ELSE LET prompts_to_deactivate ==
                    ResolveIndices(prompt_groups[group_name], all_prompts)
            IN
            IF ~AllInRange(prompt_groups[group_name], all_prompts)
            THEN /\ Return("deactivate_prompt_group", <<FALSE, "group indices invalid", <<>>>>)
                 /\ UNCHANGED active_prompts
            ELSE LET r == PM_deactivate_prompts_by_reference(active_prompts,
                                                             prompts_to_deactivate) IN
                 /\ active_prompts' = r.active
                 /\ IF r.removed # <<>>
                    THEN Return("deactivate_prompt_group", <<TRUE, "group deactivated", r.removed>>)
                    ELSE Return("deactivate_prompt_group", <<TRUE, "group not active", <<>>>>)

deactivate_prompt_group(group_name) ==
    LET all_prompts == get_current_prompts IN
    /\ Tick
    /\ scenario' = Track("deactivate_prompt_group", group_name)
    /\ UNCHANGED <<preset_list, presets, current_preset_name, prompt_groups,
                   saved_groups, saved_active, saved_from>>
    /\ IF current_preset_name = ""
       THEN /\ Return("deactivate_prompt_group", <<FALSE, "no preset selected", <<>>>>)
            /\ UNCHANGED active_prompts
       ELSE IF group_name = ""
       THEN /\ Return("deactivate_prompt_group", <<FALSE, "empty group name", <<>>>>)
            /\ UNCHANGED active_prompts
       ELSE IF group_name \notin DOMAIN prompt_groups
       THEN /\ Return("deactivate_prompt_group", <<FALSE, "group not found", <<>>>>)
            /\ UNCHANGED active_prompts
       ELSE IF prompt_groups[group_name] = <<>>
       THEN /\ Return("deactivate_prompt_group", <<TRUE, "group empty", <<>>>>)
            /\ UNCHANGED active_prompts
       ELSE IF all_prompts = <<>>
       THEN /\ Return("deactivate_prompt_group", <<FALSE, "no prompts", <<>>>>)
            /\ UNCHANGED active_prompts
       ELSE LET prompts_to_deactivate ==
                    ResolveIndices(prompt_groups[group_name], all_prompts)
            IN
            IF prompts_to_deactivate = <<>>
            THEN /\ Return("deactivate_prompt_group", <<FALSE, "group indices invalid", <<>>>>)
                 /\ UNCHANGED active_prompts
            ELSE LET r == PM_deactivate_prompts_by_reference(active_prompts,
                                                             prompts_to_deactivate) IN
                 /\ active_prompts' = r.active
                 /\ IF r.removed # <<>>
                    THEN Return("deactivate_prompt_group", <<TRUE, "group deactivated", r.removed>>)
                    ELSE Return("deactivate_prompt_group", <<TRUE, "group not active", <<>>>>)

\* Faulty variant of clear_active_prompts: the current preset is deselected too.
clear_active_prompts_resets_preset ==
    LET count == Len(active_prompts) IN
    /\ Tick
    /\ scenario' = Track("clear_active_prompts", "")
    /\ UNCHANGED <<preset_list, presets, prompt_groups,
                   saved_groups, saved_active, saved_from>>
    /\ current_preset_name' = ""
    /\ active_prompts' = <<>>
    /\ IF count = 0
       THEN Return("clear_active_prompts", <<TRUE, "nothing active", 0>>)
       ELSE Return("clear_active_prompts", <<TRUE, "cleared", count>>)

clear_active_prompts ==
    LET count == Len(active_prompts) IN
    /\ Tick
    /\ scenario' = Track("clear_active_prompts", "")
    /\ UNCHANGED <<preset_list, presets, current_preset_name, prompt_groups,
                   saved_groups, saved_active, saved_from>>
    /\ active_prompts' = <<>>
    /\ IF count = 0
       THEN Return("clear_active_prompts", <<TRUE, "nothing active", 0>>)
       ELSE Return("clear_active_prompts", <<TRUE, "cleared", count>>)

\* PromptsManager.add_prompt_to_preset: the new user-created prompt, appended
\* to the preset's list.
UserPrompt(name, content) ==
    [name |-> name, content |-> content, origin |-> "user-created"]

add_prompt(name, content) ==
    /\ Tick
    /\ scenario' = NoScenario
    /\ UNCHANGED <<preset_list, current_preset_name, active_prompts, prompt_groups,
                   saved_groups, saved_active, saved_from>>
    /\ IF current_preset_name = ""
       THEN /\ Return("add_prompt", <<FALSE, "no preset selected", NoPrompt>>)
            /\ UNCHANGED presets
       ELSE IF name = ""
       THEN /\ Return("add_prompt", <<FALSE, "empty prompt name", NoPrompt>>)
            /\ UNCHANGED presets
       ELSE IF content = ""
       THEN /\ Return("add_prompt", <<FALSE, "empty prompt content", NoPrompt>>)
            /\ UNCHANGED presets
       ELSE /\ Len(get_current_prompts) < MaxPrompts
            /\ presets' = [presets EXCEPT ![current_preset_name] =
                              Append(@, UserPrompt(name, content))]
            /\ Return("add_prompt", <<TRUE, "added", Some(UserPrompt(name, content))>>)

update_prompt(index, name, content) ==
    LET all_prompts == get_current_prompts IN
    /\ Tick
    /\ scenario' = NoScenario
    /\ UNCHANGED <<preset_list, current_preset_name, active_prompts, prompt_groups,
                   saved_groups, saved_active, saved_from>>
    /\ IF current_preset_name = ""
       THEN /\ Return("update_prompt", <<FALSE, "no preset selected", NoPrompt>>)
            /\ UNCHANGED presets
       ELSE IF name = ""
       THEN /\ Return("update_prompt", <<FALSE, "empty prompt name", NoPrompt>>)
            /\ UNCHANGED presets
       ELSE IF content = ""
       THEN /\ Return("update_prompt", <<FALSE, "empty prompt content", NoPrompt>>)
            /\ UNCHANGED presets
       ELSE IF all_prompts = <<>>
       THEN /\ Return("update_prompt", <<FALSE, "no prompts", NoPrompt>>)
            /\ UNCHANGED presets
       ELSE IF ~InRange(index, all_prompts)
       THEN /\ Return("update_prompt", <<FALSE, "invalid prompt index", NoPrompt>>)
            /\ UNCHANGED presets
       ELSE IF At(all_prompts, index).origin # "user-created"
       THEN /\ Return("update_prompt", <<FALSE, "update failed", NoPrompt>>)
            /\ UNCHANGED presets
       ELSE /\ presets' = [presets EXCEPT ![current_preset_name][index + 1] =
                              UserPrompt(name, content)]
            /\ Return("update_prompt", <<TRUE, "updated", Some(UserPrompt(name, content))>>)

\* Faulty variant of delete_prompt: the groups are repaired, every index the
\* shorter list no longer reaches is dropped from them.
delete_prompt_repairs_groups(index) ==
    LET all_prompts == get_current_prompts IN
    /\ Tick
    /\ scenario' = NoScenario
    /\ UNCHANGED <<preset_list, current_preset_name, active_prompts,
                   saved_groups, saved_active, saved_from>>
    /\ IF current_preset_name = ""
       THEN /\ Return("delete_prompt", <<FALSE, "no preset selected", NoPrompt>>)
            /\ UNCHANGED <<presets, prompt_groups>>
       ELSE IF all_prompts = <<>>
       THEN /\ Return("delete_prompt", <<FALSE, "no prompts", NoPrompt>>)
            /\ UNCHANGED <<presets, prompt_groups>>
       ELSE IF ~InRange(index, all_prompts)
       THEN /\ Return("delete_prompt", <<FALSE, "invalid prompt index", NoPrompt>>)
            /\ UNCHANGED <<presets, prompt_groups>>
       ELSE IF At(all_prompts, index).origin # "user-created"
       THEN /\ Return("delete_prompt", <<FALSE, "delete failed", NoPrompt>>)
            /\ UNCHANGED <<presets, prompt_groups>>
       ELSE /\ presets' = [presets EXCEPT ![current_preset_name] = RemoveAt(@, index)]
            /\ prompt_groups' =
                   [n \in DOMAIN prompt_groups |->
                       SelectSeq(prompt_groups[n],
                                 LAMBDA idx : idx < Len(all_prompts) - 1)]
            /\ Return("delete_prompt", <<TRUE, "deleted", Some(At(all_prompts, index))>>)

\* Faulty variant of delete_prompt: the origin of the prompt is not looked at.
delete_prompt_any_origin(index) ==
    LET all_prompts == get_current_prompts IN
    /\ Tick
    /\ scenario' = NoScenario
    /\ UNCHANGED <<preset_list, current_preset_name, active_prompts, prompt_groups,
                   saved_groups, saved_active, saved_from>>
    /\ IF current_preset_name = ""
       THEN /\ Return("delete_prompt", <<FALSE, "no preset selected", NoPrompt>>)
            /\ UNCHANGED presets
       ELSE IF all_prompts = <<>>
       THEN /\ Return("delete_prompt", <<FALSE, "no prompts", NoPrompt>>)
            /\ UNCHANGED presets
       ELSE IF ~InRange(index, all_prompts)
       THEN /\ Return("delete_prompt", <<FALSE, "invalid prompt index", NoPrompt>>)
            /\ UNCHANGED presets
       ELSE IF FALSE
       THEN /\ Return("delete_prompt", <<FALSE, "delete failed", NoPrompt>>)
            /\ UNCHANGED presets
       ELSE /\ presets' = [presets EXCEPT ![current_preset_name] = RemoveAt(@, index)]
            /\ Return("delete_prompt", <<TRUE, "deleted", Some(At(all_prompts, index))>>)

delete_prompt(index) ==
    LET all_prompts == get_current_prompts IN
    /\ Tick
    /\ scenario' = NoScenario
    /\ UNCHANGED <<preset_list, current_preset_name, active_prompts, prompt_groups,
                   saved_groups, saved_active, saved_from>>
    /\ IF current_preset_name = ""
       THEN /\ Return("delete_prompt", <<FALSE, "no preset selected", NoPrompt>>)
            /\ UNCHANGED presets
       ELSE IF all_prompts = <<>>
       THEN /\ Return("delete_prompt", <<FALSE, "no prompts", NoPrompt>>)
            /\ UNCHANGED presets
       ELSE IF ~InRange(index, all_prompts)
       THEN /\ Return("delete_prompt", <<FALSE, "invalid prompt index", NoPrompt>>)
            /\ UNCHANGED presets
       ELSE IF At(all_prompts, index).origin # "user-created"
       THEN /\ Return("delete_prompt", <<FALSE, "delete failed", NoPrompt>>)
            /\ UNCHANGED presets
       ELSE /\ presets' = [presets EXCEPT ![current_preset_name] = RemoveAt(@, index)]
            /\ Return("delete_prompt", <<TRUE, "deleted", Some(At(all_prompts, index))>>)

\* Faulty variant of create_prompt_group: the index list is stored as given,
\* repeated indices included.
create_prompt_group_keeps_duplicates(name, indices) ==
    LET all_prompts == get_current_prompts IN
    /\ Tick
    /\ scenario' = NoScenario
    /\ UNCHANGED <<preset_list, presets, current_preset_name, active_prompts, saved_active, saved_from>>
    /\ IF current_preset_name = ""
       THEN /\ Return("create_prompt_group", <<FALSE, "no preset selected">>)
            /\ UNCHANGED <<prompt_groups, saved_groups>>
       ELSE IF name = ""
       THEN /\ Return("create_prompt_group", <<FALSE, "empty group name">>)
            /\ UNCHANGED <<prompt_groups, saved_groups>>
       ELSE IF GM_can_create(name, indices, all_prompts)
       THEN /\ prompt_groups' = [GM_with_group(name, indices) EXCEPT ![name] = indices]
            /\ saved_groups' = [saved_groups EXCEPT ![current_preset_name] =
                                   [GM_with_group(name, indices) EXCEPT ![name] = indices]]
            /\ Return("create_prompt_group", <<TRUE, "group created">>)
       ELSE /\ Return("create_prompt_group", <<FALSE, "create group failed">>)
            /\ UNCHANGED <<prompt_groups, saved_groups>>

\* Faulty variant of create_prompt_group: the stored group is returned as a
\* third component.
create_prompt_group_returns_group(name, indices) ==
    LET all_prompts == get_current_prompts IN
    /\ Tick
    /\ scenario' = NoScenario
    /\ UNCHANGED <<preset_list, presets, current_preset_name, active_prompts, saved_active, saved_from>>
    /\ IF current_preset_name = ""
       THEN /\ Return("create_prompt_group", <<FALSE, "no preset selected">>)
            /\ UNCHANGED <<prompt_groups, saved_groups>>
       ELSE IF name = ""
       THEN /\ Return("create_prompt_group", <<FALSE, "empty group name">>)
            /\ UNCHANGED <<prompt_groups, saved_groups>>
       ELSE IF GM_can_create(name, indices, all_prompts)
       THEN /\ prompt_groups' = GM_with_group(name, indices)
            /\ saved_groups' = [saved_groups EXCEPT ![current_preset_name] =
                                   GM_with_group(name, indices)]
            /\ Return("create_prompt_group", <<TRUE, "group created", Dedup(indices)>>)
       ELSE /\ Return("create_prompt_group", <<FALSE, "create group failed">>)
            /\ UNCHANGED <<prompt_groups, saved_groups>>

create_prompt_group(name, indices) ==
    LET all_prompts == get_current_prompts IN
    /\ Tick
    /\ scenario' = NoScenario
    /\ UNCHANGED <<preset_list, presets, current_preset_name, active_prompts, saved_active, saved_from>>
    /\ IF current_preset_name = ""
       THEN /\ Return("create_prompt_group", <<FALSE, "no preset selected">>)
            /\ UNCHANGED <<prompt_groups, saved_groups>>
       ELSE IF name = ""
       THEN /\ Return("create_prompt_group", <<FALSE, "empty group name">>)
            /\ UNCHANGED <<prompt_groups, saved_groups>>
       ELSE IF GM_can_create(name, indices, all_prompts)
       THEN /\ prompt_groups' = GM_with_group(name, indices)
            /\ saved_groups' = [saved_groups EXCEPT ![current_preset_name] =
                                   GM_with_group(name, indices)]
            /\ Return("create_prompt_group", <<TRUE, "group created">>)
       ELSE /\ Return("create_prompt_group", <<FALSE, "create group failed">>)
            /\ UNCHANGED <<prompt_groups, saved_groups>>

\* Faulty variant of update_prompt_group: the indices are not checked against
\* the prompt list.
update_prompt_group_unvalidated(name, indices) ==
    LET all_prompts == get_current_prompts IN
    /\ Tick
    /\ scenario' = NoScenario
    /\ UNCHANGED <<preset_list, presets, current_preset_name, active_prompts, saved_active, saved_from>>
    /\ IF current_preset_name = ""
       THEN /\ Return("update_prompt_group", <<FALSE, "no preset selected">>)
            /\ UNCHANGED <<prompt_groups, saved_groups>>
       ELSE IF name \notin DOMAIN prompt_groups
       THEN /\ Return("update_prompt_group", <<FALSE, "group does not exist">>)
            /\ UNCHANGED <<prompt_groups, saved_groups>>
       ELSE IF TRUE
       THEN /\ prompt_groups' = GM_with_group(name, indices)
            /\ saved_groups' = [saved_groups EXCEPT ![current_preset_name] =
                                   GM_with_group(name, indices)]
            /\ Return("update_prompt_group", <<TRUE, "group updated">>)
       ELSE /\ Return("update_prompt_group", <<FALSE, "update group failed">>)
            /\ UNCHANGED <<prompt_groups, saved_groups>>

update_prompt_group(name, indices) ==
    LET all_prompts == get_current_prompts IN
    /\ Tick
    /\ scenario' = NoScenario
    /\ UNCHANGED <<preset_list, presets, current_preset_name, active_prompts, saved_active, saved_from>>
    /\ IF current_preset_name = ""
       THEN /\ Return("update_prompt_group", <<FALSE, "no preset selected">>)
            /\ UNCHANGED <<prompt_groups, saved_groups>>
       ELSE IF name \notin DOMAIN prompt_groups
       THEN /\ Return("update_prompt_group", <<FALSE, "group does not exist">>)
            /\ UNCHANGED <<prompt_groups, saved_groups>>
       ELSE IF GM_can_update(name, indices, all_prompts)
       THEN /\ prompt_groups' = GM_with_group(name, indices)
            /\ saved_groups' = [saved_groups EXCEPT ![current_preset_name] =
                                   GM_with_group(name, indices)]
            /\ Return("update_prompt_group", <<TRUE, "group updated">>)
       ELSE /\ Return("update_prompt_group", <<FALSE, "update group failed">>)
            /\ UNCHANGED <<prompt_groups, saved_groups>>

\* Faulty variant of delete_prompt_group: the group is dropped in memory and
\* the group file is not rewritten.
delete_prompt_group_in_memory_only(name) ==
    /\ Tick
    /\ scenario' = NoScenario
    /\ UNCHANGED <<preset_list, presets, current_preset_name, active_prompts, saved_active, saved_from>>
    /\ IF current_preset_name = ""
       THEN /\ Return("delete_prompt_group", <<FALSE, "no preset selected">>)
            /\ UNCHANGED <<prompt_groups, saved_groups>>
       ELSE IF name \notin DOMAIN prompt_groups
       THEN /\ Return("delete_prompt_group", <<FALSE, "group does not exist">>)
            /\ UNCHANGED <<prompt_groups, saved_groups>>
       ELSE /\ prompt_groups' = GM_without_group(name)
            /\ UNCHANGED saved_groups
            /\ Return("delete_prompt_group", <<TRUE, "group deleted">>)

delete_prompt_group(name) ==
    /\ Tick
    /\ scenario' = NoScenario
    /\ UNCHANGED <<preset_list, presets, current_preset_name, active_prompts, saved_active, saved_from>>
    /\ IF current_preset_name = ""
       THEN /\ Return("delete_prompt_group", <<FALSE, "no preset selected">>)
            /\ UNCHANGED <<prompt_groups, saved_groups>>
       ELSE IF name \notin DOMAIN prompt_groups
       THEN /\ Return("delete_prompt_group", <<FALSE, "group does not exist">>)
            /\ UNCHANGED <<prompt_groups, saved_groups>>
       ELSE /\ prompt_groups' = GM_without_group(name)
            /\ saved_groups' = [saved_groups EXCEPT ![current_preset_name] =
                                   GM_without_group(name)]
            /\ Return("delete_prompt_group", <<TRUE, "group deleted">>)

\* "\n\n".join(parts)
RECURSIVE Join(_)
Join(parts) ==
    IF parts = <<>> THEN ""
    ELSE IF Len(parts) = 1 THEN parts[1]
    ELSE parts[1] \o "\n\n" \o Join(Tail(parts))

\* The content of every active prompt that has one, in ActiveSet order.
Contents(active) ==
    LET filled == SelectSeq(active, LAMBDA prompt : prompt.content # "")
    IN  [k \in 1 .. Len(filled) |-> filled[k].content]

\* Faulty variant of process_llm_request: the prefix goes after the active prompts.
process_llm_request_prefix_last(system_prompt, user_prompt) ==
    LET current_prefix == get_current_prefix
        parts_to_prepend ==
            Contents(active_prompts)
                \o (IF current_prefix # "" THEN <<current_prefix>> ELSE <<>>)
        modified_system ==
            IF parts_to_prepend # <<>>
            THEN IF system_prompt # ""
                 THEN Join(parts_to_prepend) \o "\n\n" \o system_prompt
                 ELSE Join(parts_to_prepend)
            ELSE system_prompt
    IN
    /\ Tick
    /\ scenario' = NoScenario
    /\ UNCHANGED <<preset_list, presets, current_preset_name, active_prompts,
                   prompt_groups, saved_groups, saved_active, saved_from>>
    /\ Return("process_llm_request", <<modified_system, user_prompt>>)

\* Faulty variant of process_llm_request: the active prompts are used up by
\* the request they were added to.
process_llm_request_consumes(system_prompt, user_prompt) ==
    LET current_prefix == get_current_prefix
        parts_to_prepend ==
            (IF current_prefix # "" THEN <<current_prefix>> ELSE <<>>)
                \o Contents(active_prompts)
        modified_system ==
            IF parts_to_prepend # <<>>
            THEN IF system_prompt # ""
                 THEN Join(parts_to_prepend) \o "\n\n" \o system_prompt
                 ELSE Join(parts_to_prepend)
            ELSE system_prompt
    IN
    /\ Tick
    /\ scenario' = NoScenario
    /\ active_prompts' = <<>>
    /\ UNCHANGED <<preset_list, presets, current_preset_name,
                   prompt_groups, saved_groups, saved_active, saved_from>>
    /\ Return("process_llm_request", <<modified_system, user_prompt>>)

\* Faulty variant of process_llm_request: every active prompt gives a segment,
\* also one whose content is empty.
process_llm_request_joins_every_content(system_prompt, user_prompt) ==
    LET current_prefix == get_current_prefix
        parts_to_prepend ==
            (IF current_prefix # "" THEN <<current_prefix>> ELSE <<>>)
                \o [k \in 1 .. Len(active_prompts) |-> active_prompts[k].content]
        modified_system ==
            IF parts_to_prepend # <<>>
            THEN IF system_prompt # ""
                 THEN Join(parts_to_prepend) \o "\n\n" \o system_prompt
                 ELSE Join(parts_to_prepend)
            ELSE system_prompt
    IN
    /\ Tick
    /\ scenario' = NoScenario
    /\ UNCHANGED <<preset_list, presets, current_preset_name, active_prompts,
                   prompt_groups, saved_groups, saved_active, saved_from>>
    /\ Return("process_llm_request", <<modified_system, user_prompt>>)

process_llm_request(system_prompt, user_prompt) ==
    LET current_prefix == get_current_prefix
        parts_to_prepend ==
            (IF current_prefix # "" THEN <<current_prefix>> ELSE <<>>)
                \o Contents(active_prompts)
        modified_system ==
            IF parts_to_prepend # <<>>
            THEN IF system_prompt # ""
                 THEN Join(parts_to_prepend) \o "\n\n" \o system_prompt
                 ELSE Join(parts_to_prepend)
            ELSE system_prompt
    IN
    /\ Tick
    /\ scenario' = NoScenario
    /\ UNCHANGED <<preset_list, presets, current_preset_name, active_prompts,
                   prompt_groups, saved_groups, saved_active, saved_from>>
    /\ Return("process_llm_request", <<modified_system, user_prompt>>)

\* What the caller gets when an exception leaves the method instead of a
\* returned tuple.
Raised == <<"exception">>

\* process_llm_request when the preset store raises in get_prefix: the method
\* has no try block, so the exception leaves it and no tuple is returned.
process_llm_request_prefix_raises(system_prompt, user_prompt) ==
    /\ Tick
    /\ scenario' = NoScenario
    /\ current_preset_name # ""
    /\ UNCHANGED <<preset_list, presets, current_preset_name, active_prompts,
                   prompt_groups, saved_groups, saved_active, saved_from>>
    /\ Return("process_llm_request", Raised)

\* The add command of main.py given a name only: with no preset current it
\* answers at once, otherwise it asks for the content and waits up to 60
\* seconds for the next message, while other commands are handled.
add_prompt_command_wait(name) ==
    /\ steps < MaxSteps
    /\ steps' = steps + 1
    /\ ~pending_add.waiting
    /\ scenario' = NoScenario
    /\ UNCHANGED <<preset_list, presets, current_preset_name, active_prompts,
                   prompt_groups, saved_groups, saved_active, saved_from>>
    /\ Return("add_prompt_command", <<>>)
    /\ IF current_preset_name = ""
       THEN pending_add' = NotWaiting
       ELSE pending_add' = [waiting |-> TRUE, name |-> name,
                            issued_under |-> current_preset_name]

\* The waiting add command goes on: on an empty reply, a cancel or the
\* timeout it gives up, otherwise it calls Controller.add_prompt with the
\* name it was given and the content that arrived.
add_prompt_command_resume(content) ==
    LET name == pending_add.name IN
    /\ steps < MaxSteps
    /\ steps' = steps + 1
    /\ pending_add.waiting
    /\ pending_add' = NotWaiting
    /\ scenario' = NoScenario
    /\ UNCHANGED <<preset_list, current_preset_name, active_prompts, prompt_groups,
                   saved_groups, saved_active, saved_from>>
    /\ IF content = ""
       THEN /\ Return("add_prompt_command", <<>>)
            /\ UNCHANGED presets
       ELSE IF current_preset_name = ""
       THEN /\ Return("add_prompt", <<FALSE, "no preset selected", NoPrompt>>)
            /\ UNCHANGED presets
       ELSE IF name = ""
       THEN /\ Return("add_prompt", <<FALSE, "empty prompt name", NoPrompt>>)
            /\ UNCHANGED presets
       ELSE /\ Len(get_current_prompts) < MaxPrompts
            /\ presets' = [presets EXCEPT ![current_preset_name] =
                              Append(@, UserPrompt(name, content))]
            /\ Return("add_prompt", <<TRUE, "added", Some(UserPrompt(name, content))>>)

\* ------------------------------------------------------------ the machine
PresetIndexRange == -1 .. Cardinality(PresetNames)

Next ==
    \/ initialize
    \/ \E index \in PresetIndexRange : switch_preset(index)
    \/ \E name \in PresetNameArgs : create_preset(name)
    \/ \E outcome \in ExtractionOutcomes : refresh_prompts(TRUE, outcome)
    \/ refresh_prompts(FALSE, "same")
    \/ \E index \in IndexRange : activate_prompt(index)
    \/ \E indices \in IndexLists : activate_multiple_prompts(indices)
    \/ \E group_name \in GroupNameArgs, raises \in BOOLEAN :
          activate_prompt_group(group_name, raises)
    \/ \E index \in IndexRange : deactivate_prompt(index)
    \/ \E indices \in IndexLists : deactivate_multiple_prompts(indices)
    \/ \E group_name \in GroupNameArgs : deactivate_prompt_group(group_name)
    \/ clear_active_prompts
    \/ \E name \in NameArgs, content \in ContentArgs : add_prompt(name, content)
    \/ \E index \in IndexRange, name \in NameArgs, content \in ContentArgs :
          update_prompt(index, name, content)
    \/ \E index \in IndexRange : delete_prompt(index)
    \/ \E name \in GroupNameArgs, indices \in GroupIndexLists :
          create_prompt_group(name, indices)
    \/ \E name \in GroupNameArgs, indices \in GroupIndexLists :
          update_prompt_group(name, indices)
    \/ \E name \in GroupNameArgs : delete_prompt_group(name)
    \/ \E system_prompt \in SystemTexts, user_prompt \in UserTexts :
          process_llm_request(system_prompt, user_prompt)

Spec == Init /\ [][Next]_vars

\* The machine with a disk that can refuse the write of the activation-state
\* file: every call of Next, or one of the three saving methods with the
\* write failing.
\* Index lists tried against the failing write: empty, one index, two in
\* reverse order, one index twice, and one out of range.
WriteFailureIndexLists == {<<>>, <<0>>, <<2, 0>>, <<1, 1>>, <<0, MaxPrompts>>}

WriteFailures ==
    \/ \E index \in IndexRange : activate_prompt_save_fails(index)
    \/ \E indices \in WriteFailureIndexLists :
          activate_multiple_prompts_save_fails(indices)
    \/ \E index \in IndexRange : deactivate_prompt_save_fails(index)

NextWithWriteFailures == Next \/ WriteFailures

SpecWithWriteFailures == Init /\ [][NextWithWriteFailures]_vars

\* The machine with collaborators that raise: failing writes, the tracker
\* raising on a stale group index (in Next), and the preset store raising
\* when asked for the prefix.
NextWithRaisingCollaborators ==
    \/ NextWithWriteFailures
    \/ \E system_prompt \in SystemTexts, user_prompt \in UserTexts :
          process_llm_request_prefix_raises(system_prompt, user_prompt)

SpecWithRaisingCollaborators == Init /\ [][NextWithRaisingCollaborators]_vars

\* A start on the data directory an earlier session left: besides the
\* extracted preset "P" the store holds the preset "N" the user created and
\* filled with three prompts of their own.
PF == [name |-> "F", content |-> "cF", origin |-> "user-created"]
UserPresetPrompts == <<PC, PE, PF>>

InitAfterUserEdits ==
    /\ preset_list = <<"P", "N">>
    /\ presets = [ExtractedPrompts EXCEPT !["N"] = UserPresetPrompts]
    /\ current_preset_name = "P"
    /\ active_prompts = <<>>
    /\ prompt_groups = NoGroups
    /\ saved_active = [n \in PresetNames \cup {""} |-> <<>>]
    /\ saved_groups = [n \in PresetNames \cup {""} |-> NoGroups]
    /\ saved_from = [n \in PresetNames \cup {""} |-> NeverSaved]
    /\ last_op = "__init__"
    /\ result = <<>>
    /\ scenario = NoScenario
    /\ steps = 0
    /\ pending_add = NotWaiting

SpecAfterUserEdits == InitAfterUserEdits /\ [][Next]_vars

\* The machine with the two-step add command: between its two steps the host
\* handles any other command.
CommandNames == {"E"}

WaitingAdd ==
    \/ \E name \in CommandNames : add_prompt_command_wait(name)
    \/ \E content \in ContentArgs : add_prompt_command_resume(content)

NextWithWaitingAdd == Next \/ WaitingAdd

SpecWithWaitingAdd == Init /\ [][NextWithWaitingAdd]_vars

\* --------------------------------------- a second preset without a prefix
\* The store as an extraction can leave it: besides "P" a preset "N" that has
\* no prefix and whose first prompt has no content.
UnprefixedPresetPrompts == <<PB, PC>>

InitWithUnprefixedPreset ==
    /\ preset_list = <<"P", "N">>
    /\ presets = [ExtractedPrompts EXCEPT !["N"] = UnprefixedPresetPrompts]
    /\ current_preset_name = "P"
    /\ active_prompts = <<>>
    /\ prompt_groups = NoGroups
    /\ saved_active = [n \in PresetNames \cup {""} |-> <<>>]
    /\ saved_groups = [n \in PresetNames \cup {""} |-> NoGroups]
    /\ saved_from = [n \in PresetNames \cup {""} |-> NeverSaved]
    /\ last_op = "__init__"
    /\ result = <<>>
    /\ scenario = NoScenario
    /\ steps = 0
    /\ pending_add = NotWaiting

SpecWithUnprefixedPreset == InitWithUnprefixedPreset /\ [][Next]_vars

\* ----------------------------------------------------------------- claims
Succeeded == result[1] = TRUE

Markers(active) == [i \in 1 .. Len(active) |-> Marker(active[i])]

\* C1: every entry of the in-memory ActiveSet is value-equal to some prompt
\* of the current preset's prompt list, after any sequence of operations.
C1_ActiveEntriesArePrompts ==
    \A i \in 1 .. Len(active_prompts) : Contains(get_current_prompts, active_prompts[i])

\* The operations of C2, when they succeeded and changed the ActiveSet.
ChangedActiveSet ==
    \/ last_op = "activate_prompt" /\ Succeeded /\ result[2] = "activated"
    \/ last_op \in {"activate_multiple_prompts", "activate_prompt_group",
                    "deactivate_multiple_prompts", "deactivate_prompt_group"}
         /\ Succeeded /\ result[3] # <<>>
    \/ last_op = "deactivate_prompt" /\ Succeeded
    \/ last_op = "clear_active_prompts" /\ Succeeded /\ result[3] > 0

\* C2: after every operation that successfully changed the ActiveSet, the
\* persisted activation markers of the current preset denote exactly the
\* in-memory ActiveSet.
C2_MarkersDenoteActiveSet ==
    ChangedActiveSet => saved_active[current_preset_name] = Markers(active_prompts)

\* "\n\n".join(segments), built from the left.
RECURSIVE Block(_)
Block(segments) ==
    IF Len(segments) = 0 THEN ""
    ELSE IF Len(segments) = 1 THEN segments[1]
    ELSE Block(SubSeq(segments, 1, Len(segments) - 1)) \o "\n\n" \o segments[Len(segments)]

\* The system text built from the given segments and the original text.
Prepended(segments, system_text) ==
    IF segments = <<>> THEN system_text
    ELSE IF system_text = "" THEN Block(segments)
    ELSE Block(segments) \o "\n\n" \o system_text

PrefixSegment == IF get_current_prefix = "" THEN <<>> ELSE <<get_current_prefix>>

\* One segment per active prompt, whatever its content.
AllContents == [i \in 1 .. Len(active_prompts) |-> active_prompts[i].content]

\* One segment per active prompt whose content is not empty.
FilledContents ==
    LET keep == {i \in 1 .. Len(active_prompts) : active_prompts[i].content # ""}
        nth(k) == CHOOSE i \in keep : Cardinality({j \in keep : j < i}) = k - 1
    IN  [k \in 1 .. Cardinality(keep) |-> active_prompts[nth(k)].content]

\* C3 as stated: the system text is the prefix (if non-empty) and the content
\* of each active prompt, in ActiveSet order, joined by blank lines and then
\* to the original system text; the user text is returned unchanged.
C3_EveryActivePromptIsASegment ==
    [][\A system_text \in SystemTexts, user_text \in UserTexts :
          last_op' = "process_llm_request"
              /\ process_llm_request(system_text, user_text) =>
              result' = <<Prepended(PrefixSegment \o AllContents, system_text), user_text>>]_vars

\* C3 amended: as above, with a segment only for the active prompts whose
\* content is not empty.
C3_FilledActivePromptsAreSegments ==
    [][\A system_text \in SystemTexts, user_text \in UserTexts :
          last_op' = "process_llm_request"
              /\ process_llm_request(system_text, user_text) =>
              result' = <<Prepended(PrefixSegment \o FilledContents, system_text), user_text>>]_vars

\* C3 witness: prefix "SYS", ActiveSet [A, C], system text "orig".
C3_Witness ==
    /\ last_op = "process_llm_request"
    /\ current_preset_name = "P"
    /\ active_prompts = <<PA, PC>>
    /\ result = <<"SYS\n\ncA\n\ncC\n\norig", "u">>

\* ------------------------------------------------- C4, C5: save and restore
\* The last operation restored the ActiveSet from the stored markers.
Restored ==
    \/ last_op = "switch_preset" /\ Succeeded
    \/ last_op = "__init__" /\ current_preset_name # ""

\* The prompt values a stored marker list denotes.
Unmarked(markers) ==
    [i \in 1 .. Len(markers) |->
        [name |-> markers[i][1], content |-> markers[i][2], origin |-> markers[i][3]]]

SavedValues == Unmarked(saved_active[current_preset_name])

\* C4: when the prompt list of the preset is the one the ActiveSet was saved
\* under, restoring gives an ActiveSet equal, as a sequence of values, to the
\* saved one.
C4_RestoreReproducesSavedActiveSet ==
    Restored /\ saved_from[current_preset_name] = get_current_prompts
        => active_prompts = SavedValues

\* C5: restoring keeps, in saved order, exactly the saved values that still
\* occur in the prompt list, drops the others, and never fails because of them:
\* switch_preset fails only for want of presets or for an invalid index.
C5_RestoreDropsUnmatchedMarkers ==
    /\ Restored =>
          active_prompts =
              SelectSeq(SavedValues, LAMBDA p : Contains(get_current_prompts, p))
    /\ last_op = "switch_preset" /\ ~Succeeded =>
          result[2] \in {"no presets", "invalid preset index"}

C5_Witness ==
    /\ Restored
    /\ active_prompts # <<>>
    /\ \E i \in 1 .. Len(SavedValues) : ~Contains(get_current_prompts, SavedValues[i])

\* ------------------------------------------------- C6: idempotent activation
AlreadyActive(index) ==
    /\ InRange(index, get_current_prompts)
    /\ Contains(active_prompts, At(get_current_prompts, index))

AllAlreadyActive(indices) ==
    /\ indices # <<>>
    /\ \A k \in 1 .. Len(indices) : AlreadyActive(indices[k])

\* C6 as stated: activating prompts that are all already active leaves the
\* ActiveSet unchanged and succeeds with an empty newly-activated payload, for
\* activate_prompt and for activate_multiple_prompts.
C6_ReactivationHasEmptyPayload ==
    [][/\ \A index \in IndexRange :
              last_op' = "activate_prompt" /\ AlreadyActive(index)
              /\ activate_prompt(index) =>
                  /\ active_prompts' = active_prompts
                  /\ result'[1] = TRUE
                  /\ result'[3] = <<>>
       /\ \A indices \in IndexLists :
              last_op' = "activate_multiple_prompts" /\ AllAlreadyActive(indices)
              /\ activate_multiple_prompts(indices) =>
                  /\ active_prompts' = active_prompts
                  /\ result'[1] = TRUE
                  /\ result'[3] = <<>>]_vars

\* C6 amended: activating prompts that are all already active leaves the
\* ActiveSet unchanged and succeeds; activate_multiple_prompts returns an empty
\* newly-activated list, activate_prompt returns the already-active prompt.
C6_ReactivationLeavesActiveSet ==
    [][/\ \A index \in IndexRange :
              last_op' = "activate_prompt" /\ AlreadyActive(index)
              /\ activate_prompt(index) =>
                  /\ active_prompts' = active_prompts
                  /\ result' = <<TRUE, "already active",
                                 Some(At(get_current_prompts, index))>>
       /\ \A indices \in IndexLists :
              last_op' = "activate_multiple_prompts" /\ AllAlreadyActive(indices)
              /\ activate_multiple_prompts(indices) =>
                  /\ active_prompts' = active_prompts
                  /\ result'[1] = TRUE
                  /\ result'[3] = <<>>]_vars

C6_Witness ==
    /\ last_op = "activate_prompt"
    /\ result = <<TRUE, "already active", Some(PA)>>
    /\ active_prompts = <<PA>>

\* ------------------------------------------------- C7: activate_multiple
\* The positions of an index list that add a prompt: the prompt is not active
\* and no earlier position denotes an equal value.
AddingPositions(indices, all_prompts, active) ==
    {k \in 1 .. Len(indices) :
        /\ ~Contains(active, At(all_prompts, indices[k]))
        /\ \A j \in 1 .. k - 1 :
               At(all_prompts, indices[j]) # At(all_prompts, indices[k])}

\* The k-th smallest element of a finite set of numbers.
RECURSIVE Nth(_, _)
Nth(S, k) == IF k = 1 THEN Min(S) ELSE Nth(S \ {Min(S)}, k - 1)

ExpectedAppended(indices, all_prompts, active) ==
    LET adding == AddingPositions(indices, all_prompts, active) IN
    [k \in 1 .. Cardinality(adding) |-> At(all_prompts, indices[Nth(adding, k)])]

\* C7: with every index in range, activate_multiple_prompts appends, in the
\* order of the index list, the denoted prompts that are neither active nor
\* denoted by an earlier index, and returns exactly the appended subsequence.
C7_AppendsNewPromptsInOrder ==
    [][\A indices \in IndexLists :
           last_op' = "activate_multiple_prompts" /\ AllInRange(indices, get_current_prompts)
              /\ activate_multiple_prompts(indices) =>
                   LET appended ==
                           ExpectedAppended(indices, get_current_prompts, active_prompts)
                   IN  /\ active_prompts' = active_prompts \o appended
                       /\ result'[3] = appended]_vars

C7_Witness ==
    /\ last_op = "activate_multiple_prompts"
    /\ result = <<TRUE, "activated", <<PC, PA>>>>
    /\ active_prompts = <<PB, PC, PA>>

\* ------------------------------------------------- C8: deactivate_multiple
Distinct(indices) ==
    \A j, k \in 1 .. Len(indices) : j # k => indices[j] # indices[k]

\* The entries of s whose zero-based position is not in the set of positions.
ExceptPositions(s, positions) ==
    LET kept == {k \in 1 .. Len(s) : (k - 1) \notin positions} IN
    [k \in 1 .. Cardinality(kept) |-> s[Nth(kept, k)]]

\* C8: with distinct indices, deactivate_multiple_prompts removes exactly the
\* entries at the in-range positions, as the positions stood before the call,
\* whatever the order of the index list, and keeps the others in order.
C8_RemovesOriginalPositions ==
    [][\A indices \in IndexLists :
           last_op' = "deactivate_multiple_prompts" /\ Distinct(indices)
              /\ deactivate_multiple_prompts(indices) =>
                   active_prompts' = ExceptPositions(active_prompts, Range(indices))]_vars

C8_Witness ==
    /\ last_op = "deactivate_multiple_prompts"
    /\ result = <<TRUE, "deactivated", <<PC, PA>>>>
    /\ active_prompts = <<PB>>

\* ------------------------------------------------- C9: group round trip
\* C9: after clear_active_prompts, activate_prompt_group(G) and
\* deactivate_prompt_group(G) in a row, G being non-empty with every index in
\* range, the ActiveSet is empty.
C9_GroupRoundTripLeavesNothingActive ==
    /\ scenario.stage = "deactivated"
    /\ scenario.group \in DOMAIN prompt_groups
    /\ prompt_groups[scenario.group] # <<>>
    /\ AllInRange(prompt_groups[scenario.group], get_current_prompts)
    => active_prompts = <<>>

C9_Witness ==
    /\ scenario.stage = "deactivated"
    /\ scenario.group = "g"
    /\ "g" \in DOMAIN prompt_groups
    /\ prompt_groups["g"] = <<0, 2>>
    /\ last_op = "deactivate_prompt_group"
    /\ result = <<TRUE, "group deactivated", <<PA, PC>>>>
    /\ active_prompts = <<>>

\* ------------------------------------------------- C10: stale group indices
\* The group holds an index inside the prompt list and one outside it.
MixedGroup(group_name) ==
    /\ group_name \in DOMAIN prompt_groups
    /\ \E k \in 1 .. Len(prompt_groups[group_name]) :
           InRange(prompt_groups[group_name][k], get_current_prompts)
    /\ \E k \in 1 .. Len(prompt_groups[group_name]) :
           ~InRange(prompt_groups[group_name][k], get_current_prompts)

\* C10: activate_prompt_group on a group with indices in and out of range
\* skips the invalid ones and completes: it succeeds and every in-range prompt
\* of the group is active.
C10_StaleIndicesAreSkipped ==
    /\ last_op = "activate_prompt_group"
    /\ result[2] \notin {"no prompts", "empty group name", "group not found"}
    /\ MixedGroup("g")
    => /\ Succeeded
       /\ \A k \in 1 .. Len(prompt_groups["g"]) :
              InRange(prompt_groups["g"][k], get_current_prompts) =>
                  Contains(active_prompts, At(get_current_prompts, prompt_groups["g"][k]))

ResolvedValues(group_name) ==
    {At(get_current_prompts, idx) :
        idx \in {i \in Range(prompt_groups[group_name]) : InRange(i, get_current_prompts)}}

\* The ActiveSet without the entries equal to a resolved value of the group.
ActiveOutside(group_name) ==
    SelectSeq(active_prompts, LAMBDA p : p \notin ResolvedValues(group_name))

\* C12 as stated: deactivate_prompt_group of a group of the current preset resolves the
\* indices against the full prompt list, removes exactly the ActiveSet entries
\* equal to a resolved prompt, keeps the others in order, and never fails
\* because of indices out of range.
C12_StaleIndicesNeverFail ==
    [][\A group_name \in GroupNames :
           last_op' = "deactivate_prompt_group" /\ current_preset_name # ""
              /\ group_name \in DOMAIN prompt_groups
              /\ deactivate_prompt_group(group_name) =>
                   /\ active_prompts' = ActiveOutside(group_name)
                   /\ Range(result'[3]) = Range(active_prompts) \cap ResolvedValues(group_name)
                   /\ result'[1] = TRUE]_vars

\* C12 amended: as above, but the call succeeds only if the group is empty or
\* at least one index is in range; with every index out of range it returns a
\* failure outcome and leaves the ActiveSet as it was.
C12_RemovesResolvedValues ==
    [][\A group_name \in GroupNames :
           last_op' = "deactivate_prompt_group" /\ current_preset_name # ""
              /\ group_name \in DOMAIN prompt_groups
              /\ deactivate_prompt_group(group_name) =>
                   /\ active_prompts' = ActiveOutside(group_name)
                   /\ Range(result'[3]) = Range(active_prompts) \cap ResolvedValues(group_name)
                   /\ result'[1] = (prompt_groups[group_name] = <<>>
                                       \/ ResolvedValues(group_name) # {})]_vars

\* Group [0, 2] on the list [A, B]: A was removed, B stays active.
C12_Witness ==
    /\ last_op = "deactivate_prompt_group"
    /\ MixedGroup("g")
    /\ result = <<TRUE, "group deactivated", <<PA>>>>
    /\ active_prompts = <<PB>>

\* ------------------------------------------------- C13: no group repair
\* C13: delete_prompt changes no group, neither in memory nor as persisted,
\* so get_prompt_group returns what it returned before; and activating a
\* non-empty group whose indices the shorter list still reaches succeeds.
C13_DeleteKeepsGroups ==
    [][/\ last_op' = "delete_prompt" =>
              /\ prompt_groups' = prompt_groups
              /\ saved_groups' = saved_groups
       /\ last_op' = "activate_prompt_group" /\ result'[2] # "empty group name"
              /\ "g" \in DOMAIN prompt_groups /\ prompt_groups["g"] # <<>>
              /\ AllInRange(prompt_groups["g"], get_current_prompts) =>
              result'[1] = TRUE]_vars

\* Group [0, 1] made on [A, B, C]; C was deleted; the group was activated.
C13_Witness ==
    /\ last_op = "activate_prompt_group"
    /\ "g" \in DOMAIN prompt_groups
    /\ prompt_groups["g"] = <<0, 1>>
    /\ get_current_prompts = <<PA, PB>>
    /\ result = <<TRUE, "group activated", <<PA, PB>>>>

\* ------------------------------------------------- C14: order inside switch_preset
\* C14: a successful switch_preset(index) first clears the ActiveSet while
\* the old preset is still current, then makes presets[index] current, then
\* loads that preset's groups while the ActiveSet is still empty, and only
\* then restores its activation state; on return the groups and the ActiveSet
\* are the ones persisted for the new preset.
C14_SwitchOrder ==
    [][\A index \in PresetIndexRange :
           last_op' = "switch_preset" /\ InRange(index, preset_list)
              /\ switch_preset(index) =>
                   LET t == switch_preset_steps(index)
                       new == At(preset_list, index)
                       restored ==
                           SelectSeq(Unmarked(saved_active[new]),
                                     LAMBDA p : Contains(presets[new], p))
                   IN  /\ t[1] = [current_preset_name |-> current_preset_name,
                                  active_prompts |-> <<>>,
                                  prompt_groups |-> prompt_groups]
                       /\ t[2] = [current_preset_name |-> new,
                                  active_prompts |-> <<>>,
                                  prompt_groups |-> prompt_groups]
                       /\ t[3] = [current_preset_name |-> new,
                                  active_prompts |-> <<>>,
                                  prompt_groups |-> saved_groups[new]]
                       /\ t[4] = [current_preset_name |-> new,
                                  active_prompts |-> restored,
                                  prompt_groups |-> saved_groups[new]]
                       /\ current_preset_name' = new
                       /\ prompt_groups' = saved_groups[new]
                       /\ active_prompts' = restored
                       /\ result'[1] = TRUE]_vars

\* Back on P from N: P's group and P's saved ActiveSet are in memory again.
C14_Witness ==
    /\ last_op = "switch_preset"
    /\ result[1] = TRUE
    /\ current_preset_name = "P"
    /\ preset_list = <<"P", "N">>
    /\ DOMAIN prompt_groups = {"g"}
    /\ active_prompts = <<PA>>

\* ------------------------------------------------- C15: failed switch_preset
\* C15: switch_preset with an index below 0 or not below the number of
\* presets, or with no preset at all, returns a failure outcome and changes
\* neither current_preset_name, the ActiveSet, the groups, the store nor any
\* persisted state.
C15_FailedSwitchChangesNothing ==
    [][\A index \in PresetIndexRange :
           last_op' = "switch_preset" /\ ~InRange(index, preset_list)
              /\ switch_preset(index) =>
                   /\ result'[1] = FALSE
                   /\ UNCHANGED <<current_preset_name, active_prompts, prompt_groups,
                                  preset_list, presets,
                                  saved_active, saved_groups, saved_from>>]_vars

\* An index past the last preset was refused while a prompt was active.
C15_Witness ==
    /\ last_op = "switch_preset"
    /\ result = <<FALSE, "invalid preset index">>
    /\ current_preset_name = "P"
    /\ active_prompts # <<>>

\* ------------------------------------------------- C16: isolation per preset
\* C16: no operation changes the persisted activation markers of a preset
\* other than the one current when it starts, and switch_preset and
\* create_preset change no persisted markers at all: leaving a preset clears
\* its ActiveSet in memory only.
C16_MarkersOfOtherPresetsKept ==
    [][/\ \A p \in PresetNames :
              p # current_preset_name => saved_active'[p] = saved_active[p]
       /\ last_op' \in {"switch_preset", "create_preset"} =>
              saved_active' = saved_active]_vars

\* P's markers are still stored while N is current and has markers of its own.
C16_Witness ==
    /\ current_preset_name = "N"
    /\ last_op = "activate_prompt"
    /\ saved_active["P"] = <<Marker(PA)>>
    /\ saved_active["N"] = <<Marker(PE)>>
    /\ active_prompts = <<PE>>

\* ------------------------------------------------- C17: the current preset
\* C17: current_preset_name is empty or names a preset of the store, and it
\* is empty only when the store holds no preset.
C17_CurrentPresetExists ==
    /\ current_preset_name = "" \/ Contains(preset_list, current_preset_name)
    /\ current_preset_name = "" => preset_list = <<>>

\* A refresh found no preset: nothing is current.
C17_Witness ==
    /\ last_op = "refresh_prompts"
    /\ preset_list = <<>>
    /\ current_preset_name = ""

\* ------------------------------------------------- C18: who changes the name
\* C18: a step that changes current_preset_name is a switch_preset, a
\* create_preset, a refresh_prompts or an initialization; every other
\* operation leaves the name as it was, whether it succeeds or fails.
C18_NameChangedOnlyByPresetOperations ==
    [][current_preset_name' # current_preset_name =>
           last_op' \in {"switch_preset", "create_preset", "refresh_prompts", "__init__"}]_vars

\* A prompt was added to the created preset N, which is still current.
C18_Witness ==
    /\ last_op = "add_prompt"
    /\ result[1] = TRUE
    /\ current_preset_name = "N"
    /\ get_current_prompts = <<PE>>

\* ------------------------------------------------- C19: create_preset
\* C19: create_preset(name) with an empty name or the name of an existing
\* preset fails and changes nothing; otherwise it succeeds, the store holds
\* the new preset, name is current, the ActiveSet and the in-memory groups
\* are empty, and no persisted group definition is written.
C19_CreatePreset ==
    [][\A name \in PresetNameArgs :
           last_op' = "create_preset" /\ create_preset(name) =>
               IF name = "" \/ Contains(preset_list, name)
               THEN /\ result'[1] = FALSE
                    /\ UNCHANGED <<current_preset_name, active_prompts, prompt_groups,
                                   preset_list, presets,
                                   saved_active, saved_groups, saved_from>>
               ELSE /\ result'[1] = TRUE
                    /\ Contains(preset_list', name)
                    /\ current_preset_name' = name
                    /\ active_prompts' = <<>>
                    /\ DOMAIN prompt_groups' = {}
                    /\ saved_groups' = saved_groups]_vars

\* N was created while P had a group and an active prompt.
C19_Witness ==
    /\ last_op = "create_preset"
    /\ result[1] = TRUE
    /\ current_preset_name = "N"
    /\ DOMAIN saved_groups["P"] = {"g"}
    /\ saved_active["P"] # <<>>
    /\ DOMAIN prompt_groups = {}
    /\ active_prompts = <<>>

\* ------------------------------------------------- C20: refresh_prompts
\* The prompts of the store, one pair per preset of the list and position.
StoredPrompts ==
    {<<n, i>> \in Range(preset_list) \X (1 .. MaxPrompts + 1) : i <= Len(presets[n])}

\* C20: after a successful refresh_prompts the ActiveSet is empty, the current
\* preset is the first of the reloaded store or none if the store is empty,
\* the in-memory groups are the ones persisted for the current preset, and
\* the statistics returned count the presets of the store and the prompts of
\* all of them.
C20_RefreshResets ==
    last_op = "refresh_prompts" /\ Succeeded =>
        /\ active_prompts = <<>>
        /\ current_preset_name = IF preset_list = <<>> THEN "" ELSE preset_list[1]
        /\ preset_list # <<>> => prompt_groups = saved_groups[current_preset_name]
        /\ result[3] = [preset_count |-> Len(preset_list),
                        prompt_count |-> Cardinality(StoredPrompts)]

\* The refresh brought back the store [P] with P's persisted group.
C20_Witness ==
    /\ last_op = "refresh_prompts"
    /\ result = <<TRUE, "reloaded", [preset_count |-> 1, prompt_count |-> 3]>>
    /\ current_preset_name = "P"
    /\ DOMAIN prompt_groups = {"g"}
    /\ saved_active["P"] # <<>>
    /\ active_prompts = <<>>

\* ---------------------------------------- C21: refresh_prompts, failed
\* C21: when the extraction step fails, refresh_prompts returns failure with
\* empty statistics, and the preset store, current_preset_name, the ActiveSet
\* and the groups are what they were before the call.
C21_FailedRefreshChangesNothing ==
    [][last_op' = "refresh_prompts" /\ refresh_prompts(FALSE, "same") =>
          /\ result'[1] = FALSE
          /\ result'[3] = NoStats
          /\ UNCHANGED <<preset_list, presets, current_preset_name, active_prompts,
                         prompt_groups, saved_active, saved_groups>>]_vars

\* A refresh failed while a prompt was active and a group was defined.
C21_Witness ==
    /\ last_op = "refresh_prompts"
    /\ result = <<FALSE, "extraction failed", NoStats>>
    /\ active_prompts # <<>>
    /\ DOMAIN prompt_groups = {"g"}

\* ------------------------------------- C22: all-or-nothing validation
\* Some index of the list lies outside 0 .. len(prompts) - 1.
SomeOutOfRange(indices, all_prompts) ==
    \E k \in 1 .. Len(indices) : indices[k] < 0 \/ indices[k] > Len(all_prompts) - 1

\* C22: activate_multiple_prompts with an empty list or with any index out of
\* range returns failure and activates nothing, the ActiveSet and the
\* persisted markers stay as they were; activate_prompt with an index out of
\* range fails and changes nothing either.
C22_InvalidIndicesActivateNothing ==
    [][/\ \A indices \in IndexLists :
              last_op' = "activate_multiple_prompts"
                  /\ (indices = <<>> \/ SomeOutOfRange(indices, get_current_prompts))
                  /\ activate_multiple_prompts(indices) =>
                      /\ result'[1] = FALSE
                      /\ result'[3] = <<>>
                      /\ UNCHANGED <<active_prompts, saved_active>>
       /\ \A index \in IndexRange :
              last_op' = "activate_prompt"
                  /\ SomeOutOfRange(<<index>>, get_current_prompts)
                  /\ activate_prompt(index) =>
                      /\ result'[1] = FALSE
                      /\ result'[3] = NoPrompt
                      /\ UNCHANGED <<active_prompts, saved_active>>]_vars

\* A list with an index out of range was refused while the preset had prompts
\* and one of them was active.
C22_Witness ==
    /\ last_op = "activate_multiple_prompts"
    /\ result = <<FALSE, "invalid prompt indices", <<>>>>
    /\ Len(get_current_prompts) = MaxPrompts
    /\ Len(active_prompts) = 1

\* ------------------------------------------------ C23: deactivate_prompt
\* C23: deactivate_prompt(i) with i a position of the ActiveSet removes and
\* returns the entry at that position, keeps the other entries in their
\* order and persists the new ActiveSet; with any other i, or with nothing
\* active, it returns failure and changes nothing.
C23_DeactivateByActivePosition ==
    [][\A index \in IndexRange :
          last_op' = "deactivate_prompt" /\ deactivate_prompt(index) =>
              IF 0 <= index /\ index < Len(active_prompts)
              THEN /\ result'[1] = TRUE
                   /\ result'[3] = <<active_prompts[index + 1]>>
                   /\ active_prompts' = SubSeq(active_prompts, 1, index)
                                           \o SubSeq(active_prompts, index + 2,
                                                     Len(active_prompts))
                   /\ saved_active'[current_preset_name] = Markers(active_prompts')
              ELSE /\ result'[1] = FALSE
                   /\ result'[3] = NoPrompt
                   /\ UNCHANGED <<active_prompts, saved_active>>]_vars

\* C was activated before A; position 0 was deactivated and gave back C.
C23_Witness ==
    /\ last_op = "deactivate_prompt"
    /\ result = <<TRUE, "deactivated", <<PC>>>>
    /\ active_prompts = <<PA>>
    /\ saved_active["P"] = <<Marker(PA)>>

\* ------------------------------------- C24: extracted prompts are fixed
\* The prompt at a 0-based index of the current preset is an extracted one.
IsExtracted(index) ==
    /\ current_preset_name # ""
    /\ 0 <= index /\ index < Len(get_current_prompts)
    /\ get_current_prompts[index + 1].origin = "extracted"

\* C24: update_prompt and delete_prompt on an extracted prompt return failure
\* with no prompt, and the preset's prompt list, the ActiveSet and the groups
\* stay as they were; a call that changes a prompt list was made on a
\* user-created prompt.
C24_ExtractedPromptsAreImmutable ==
    [][/\ \A index \in IndexRange, name \in NameArgs, content \in ContentArgs :
              last_op' = "update_prompt" /\ update_prompt(index, name, content) =>
                  /\ IsExtracted(index) =>
                         /\ result'[1] = FALSE
                         /\ result'[3] = NoPrompt
                         /\ UNCHANGED <<presets, active_prompts, prompt_groups, saved_groups>>
                  /\ presets' # presets =>
                         get_current_prompts[index + 1].origin = "user-created"
       /\ \A index \in IndexRange :
              last_op' = "delete_prompt" /\ delete_prompt(index) =>
                  /\ IsExtracted(index) =>
                         /\ result'[1] = FALSE
                         /\ result'[3] = NoPrompt
                         /\ UNCHANGED <<presets, active_prompts, prompt_groups, saved_groups>>
                  /\ presets' # presets =>
                         get_current_prompts[index + 1].origin = "user-created"]_vars

\* The deletion of an extracted prompt was refused while prompts were active
\* and a group was defined.
C24_Witness ==
    /\ last_op = "delete_prompt"
    /\ result = <<FALSE, "delete failed", NoPrompt>>
    /\ active_prompts # <<>>
    /\ DOMAIN prompt_groups = {"g"}
    /\ presets["P"] = <<PA, PB, PC>>

\* ---------------------------------------------- C25: create_prompt_group
\* The index list without the repetitions of an index it already holds.
FirstOccurrences(indices) ==
    ExceptPositions(indices,
                    {k - 1 : k \in {k \in 1 .. Len(indices) :
                                       \E j \in 1 .. k - 1 : indices[j] = indices[k]}})

C26_RefusedGroupChangesKeepGroups ==
    [][/\ \A name \in GroupNameArgs, indices \in GroupIndexLists :
              last_op' = "update_prompt_group"
                  /\ (\/ current_preset_name = ""
                      \/ name \notin DOMAIN prompt_groups
                      \/ SomeOutOfRange(indices, get_current_prompts))
                  /\ update_prompt_group(name, indices) =>
                      /\ result'[1] = FALSE
                      /\ UNCHANGED <<prompt_groups, saved_groups>>
       /\ \A name \in GroupNameArgs :
              last_op' = "delete_prompt_group"
                  /\ (current_preset_name = "" \/ name \notin DOMAIN prompt_groups)
                  /\ delete_prompt_group(name) =>
                      /\ result'[1] = FALSE
                      /\ UNCHANGED <<prompt_groups, saved_groups>>]_vars

\* An update of group g with an index out of range was refused; g still holds
\* the indices it was created with.
C26_Witness ==
    /\ last_op = "update_prompt_group"
    /\ result = <<FALSE, "update group failed">>
    /\ current_preset_name = "P"
    /\ prompt_groups = [n \in {"g"} |-> <<0, 2>>]
    /\ saved_groups["P"] = prompt_groups

\* ------------------------------------- C27: groups persisted per preset
GroupOperations == {"create_prompt_group", "update_prompt_group", "delete_prompt_group"}

\* The step was a successful create, update or delete of a group.
GroupsChanged == last_op' \in GroupOperations /\ result'[1] = TRUE

\* The step made a preset current by switching to it or by a restart.
PresetEntered ==
    \/ last_op' = "switch_preset" /\ result'[1] = TRUE
    \/ last_op' = "__init__" /\ current_preset_name' # ""

\* C27: groups are persisted with every successful create, update or delete
\* and per preset.  Such a call leaves the group file of the current preset
\* equal to the groups in memory; nothing else writes a group file, so the
\* file of a preset is not touched while another preset is current; a switch
\* to a preset and a restart load the preset's file, which gives back the
\* mapping the last change on that preset left; and while a preset is
\* current the groups in memory are its own file's or, from its creation to
\* its first group, none.
C27_GroupsPersistedPerPreset ==
    [][/\ GroupsChanged => saved_groups'[current_preset_name'] = prompt_groups'
       /\ \A n \in DOMAIN saved_groups :
              saved_groups'[n] # saved_groups[n] =>
                  GroupsChanged /\ n = current_preset_name
                      /\ current_preset_name' = current_preset_name
       /\ PresetEntered => prompt_groups' = saved_groups[current_preset_name']
       /\ current_preset_name' # "" =>
              \/ prompt_groups' = saved_groups'[current_preset_name']
              \/ prompt_groups' = NoGroups]_vars

\* Group g was created on P, preset N was created, and the switch back to P
\* shows g again.
C27_Witness ==
    /\ last_op = "switch_preset"
    /\ Succeeded
    /\ current_preset_name = "P"
    /\ preset_list = <<"P", "N">>
    /\ prompt_groups = [n \in {"g"} |-> <<0, 1>>]
    /\ saved_groups["N"] = NoGroups

\* -------------------------------- C28: process_llm_request only reads
\* C28: process_llm_request, in any state and for any arguments, leaves the
\* ActiveSet, current_preset_name, the prompt lists, the groups and the
\* persisted state as they were, so the operations that follow find the state
\* they would have found without it.
C28_RequestProcessingOnlyReads ==
    [][last_op' = "process_llm_request" =>
          UNCHANGED <<preset_list, presets, current_preset_name, active_prompts,
                      prompt_groups, saved_active, saved_groups>>]_vars

\* A request was processed with a prefix and an active prompt in front of the
\* host's system text, and the prompt is still active.
C28_Witness ==
    /\ last_op = "process_llm_request"
    /\ result = <<"SYS\n\ncA\n\norig", "u">>
    /\ active_prompts = <<PA>>
    /\ saved_active["P"] = <<Marker(PA)>>

C30_NoExceptionEscapes == result # Raised

\* ------------------------------------------- C31: shape of the results
\* The methods the commands call; __init__ and process_llm_request are not
\* commands.
CommandOperations ==
    {"switch_preset", "create_preset", "refresh_prompts", "activate_prompt",
     "activate_multiple_prompts", "activate_prompt_group", "deactivate_prompt",
     "deactivate_multiple_prompts", "deactivate_prompt_group", "clear_active_prompts",
     "add_prompt", "update_prompt", "delete_prompt", "create_prompt_group",
     "update_prompt_group", "delete_prompt_group"}

\* The methods declared to return Tuple[bool, str].
TwoComponentOperations ==
    {"switch_preset", "create_preset", "create_prompt_group", "update_prompt_group",
     "delete_prompt_group"}

\* C31 as stated: every operation of the command surface returns a result of
\* three components (success flag, message, payload), switch_preset,
\* create_preset and the group create, update and delete included.
C31_EveryResultHasThreeComponents ==
    last_op \in CommandOperations => Len(result) = 3 /\ result[1] \in BOOLEAN

\* C31 amended: every operation of the command surface returns a result whose
\* first component is the success flag and whose second is the message; the
\* activation, prompt-mutation, clear and refresh operations add a payload as
\* third component, while switch_preset, create_preset and the group create,
\* update and delete return the two components only.
C31_ResultsCarryFlagAndMessage ==
    last_op \in CommandOperations =>
        /\ result[1] \in BOOLEAN
        /\ Len(result) = IF last_op \in TwoComponentOperations THEN 2 ELSE 3

\* A group was created and the call returned flag and message, no payload.
C31_Witness ==
    /\ last_op = "create_prompt_group"
    /\ result = <<TRUE, "group created">>
    /\ DOMAIN prompt_groups = {"g"}

\* ------------------------- C32: deactivate_multiple_prompts, repeated index
\* C32: deactivate_multiple_prompts removes only entries whose position in the
\* ActiveSet before the call is in the index list, also when the list names
\* an index twice: an entry at any other position is still active afterwards.
C32_RemovesOnlyListedPositions ==
    [][\A indices \in IndexLists :
          last_op' = "deactivate_multiple_prompts"
              /\ deactivate_multiple_prompts(indices) =>
                  \A k \in 1 .. Len(active_prompts) :
                      (k - 1) \notin Range(indices) =>
                          Contains(active_prompts', active_prompts[k])]_vars

\* ------------------------------- C33: groups across a deleted prompt
\* C33: after a successful delete_prompt a group defined beforehand denotes,
\* and activate_prompt_group activates, only prompts that already stood at
\* the group's indices; deleting a prompt below a member of the group does
\* not make the group denote a different prompt.
C33_DeleteKeepsWhatGroupsDenote ==
    [][\A index \in IndexRange :
          last_op' = "delete_prompt" /\ result'[1] = TRUE /\ delete_prompt(index) =>
              \A g \in DOMAIN prompt_groups :
                  ResolvedValues(g)' \subseteq ResolvedValues(g)]_vars

\* ------------------------------------------- C34: the two-step add command
\* C34: the two-step add command adds its prompt to the preset that was
\* current when the command was issued, whatever commands were handled while
\* it waited for the content.
C34_AddGoesToThePresetOfTheCommand ==
    [][\A content \in ContentArgs :
          last_op' = "add_prompt" /\ pending_add.waiting /\ result'[1] = TRUE
              /\ add_prompt_command_resume(content) =>
                  presets'[pending_add.issued_under] =
                      Append(presets[pending_add.issued_under],
                             UserPrompt(pending_add.name, content))]_vars

\* ----------------------------------- C35: no prompt is active twice
NoEqualEntries(s) ==
    \A j, k \in 1 .. Len(s) : j # k => s[j] # s[k]

\* C35: in every reachable state the ActiveSet contains no two value-equal
\* prompts: not when the preset's list holds value-equal prompts at different
\* indices, not when an index list or a group repeats an index, and not after
\* the activation state was restored from the persisted markers.
C35_NoPromptIsActiveTwice ==
    NoEqualEntries(active_prompts)

\* The current preset holds two value-equal prompts at different indices, an
\* activation of several indices has appended exactly one prompt, and that
\* value is active.
C35_Witness ==
    /\ last_op = "activate_multiple_prompts"
    /\ Succeeded
    /\ Len(result[3]) = 1
    /\ \E i, j \in 1 .. Len(get_current_prompts) :
           /\ i # j
           /\ get_current_prompts[i] = get_current_prompts[j]
           /\ result[3] = <<get_current_prompts[i]>>
           /\ Contains(active_prompts, get_current_prompts[i])

\* ------------------------- C36: the in-memory groups and the current preset
\* C36: in every reachable state the in-memory group registry holds exactly
\* the groups belonging to the current preset, and it is empty whenever no
\* preset is current (for example after refresh_prompts reloaded a store
\* with no presets).
C36_GroupsAreThoseOfTheCurrentPreset ==
    /\ current_preset_name = "" => prompt_groups = NoGroups
    /\ current_preset_name # "" => prompt_groups = saved_groups[current_preset_name]

\* ------------------------------ C37: active prompts without content
\* The active prompts that have content, and the content of each.
WithContent(active) == SelectSeq(active, LAMBDA prompt : prompt.content # "")
ContentOfEach(prompts) == [k \in 1 .. Len(prompts) |-> prompts[k].content]

\* C37: process_llm_request returns the system text it would return if the
\* active prompts with empty content were not active (they give no segment
\* and no blank-line separator), and when the prefix is empty and no active
\* prompt has content it returns system_text exactly as given; the user text
\* is returned as given.
C37_EmptyContentAddsNothing ==
    [][\A system_text \in SystemTexts, user_text \in UserTexts :
          last_op' = "process_llm_request"
              /\ process_llm_request(system_text, user_text) =>
                  /\ result'[1] =
                         Prepended(PrefixSegment \o ContentOfEach(WithContent(active_prompts)),
                                   system_text)
                  /\ (get_current_prefix = "" /\ WithContent(active_prompts) = <<>>) =>
                         result' = <<system_text, user_text>>]_vars

\* The current preset has no prefix, its only active prompt has no content,
\* and the request came back with the system text "orig" as it was given.
C37_Witness ==
    /\ last_op = "process_llm_request"
    /\ current_preset_name = "N"
    /\ active_prompts = <<PB>>
    /\ result = <<"orig", "u">>
====
